---- MODULE Spec2Model ----
(***************************************************************************)
(* A model of the agent memory system: WorkingMemory (a sliding window of  *)
(* turns per session in a Redis list), LongTermMemory (a vector index, a   *)
(* record table and their persisted artifacts) and MemoryManager (routing  *)
(* of interactions to both).  Every handler is a sequence of steps of a    *)
(* calling thread; the variable serial says whether callers wait for each  *)
(* other (one call at a time) or interleave step by step.                  *)
(***************************************************************************)
EXTENDS Integers, Sequences, FiniteSets, TLC

\* ------------------------------------------------------------------ bounds
\* readings of the clock (datetime.now()) a run may take
MaxClock == 3
\* largest configured window size
MaxWindow == 2
\* largest number of vectors the index may hold
MaxIndex == 2

Threads == {"t1", "t2"}
Sessions == {"s1", "s2"}
Roles == {"user", "agent"}
Contents == {"x"}
Texts == {"a", "b"}
Queries == {"a", "b", "q"}

\* ------------------------------------------------------- Python values
\* A dict is a function on a set of string keys; None is not a dict.
EmptyDict == [k \in {} |-> ""]
PyNone == [tag |-> "None"]
PyDict(d) == [tag |-> "dict", items |-> d]
PyStr(x) == [tag |-> "str", s |-> x]
MetadataArgs == {PyNone, PyDict([k \in {"k"} |-> "v"])}
TextArgs == {PyNone, PyStr("b")}

\* Python truthiness of None, a str and a dict
Truthy(v) ==
    CASE v.tag = "None" -> FALSE
      [] v.tag = "str" -> v.s # ""
      [] v.tag = "dict" -> DOMAIN v.items # {}

Min(a, b) == IF a < b THEN a ELSE b

\* d[k] = v
DictSet(d, k, v) == [x \in DOMAIN d \cup {k} |-> IF x = k THEN v ELSE d[x]]
\* d.update(e)
DictUpdate(d, e) == [x \in DOMAIN d \cup DOMAIN e |-> IF x \in DOMAIN e THEN e[x] ELSE d[x]]

\* `metadata or {}`: None and the empty dict are falsy
OrEmptyDict(m) ==
    IF m.tag = "dict" /\ DOMAIN m.items # {} THEN m.items ELSE EmptyDict

\* json.dumps / json.loads of one turn: the store holds the encoded text
JsonDumps(item) == <<"json", item>>
JsonLoads(s) == s[2]

\* ------------------------------------------------------------ variables
VARIABLES
    serial,        \* TRUE: callers run one call at a time
    config,        \* MemoryManager.config: context_max_tokens and retrieval_top_k
    strategy,      \* MemorySummarizer.strategy: the strategy object and its backend
    summary_history, \* MemorySummarizer.summary_history
    now,           \* the clock read by datetime.now()
    window_size,   \* WorkingMemory.window_size
    redis,         \* the Redis lists: key -> sequence of encoded turns
    ttl,           \* the expiry of each key: <<>> (none) or <<seconds>>
    index,         \* LongTermMemory.index: the vectors, by position
    id_to_memory,  \* LongTermMemory.id_to_memory
    next_id,       \* LongTermMemory.next_id
    fsIndex,       \* the persisted index artifact
    fsMap,         \* the persisted record-table artifact
    pc,            \* each thread's position
    call,          \* each thread's outermost call and what it observed
    loc,           \* each thread's locals in the WorkingMemory/LongTermMemory call
    ret,           \* each thread's last return value
    added,         \* history: per session, the turns whose AddContext succeeded
    cleared,       \* history: per session, what ClearMemory did
    committed,     \* history: per session, the list outside any write and whether writes overlapped
    readable,      \* history: per thread, the lists a pending GetContext may see (before/after each write)
    saved,         \* history: the instance state at the last successful SaveIndex
    outcomes,      \* history: of each AddInteraction that needed both writes, what failed and the result
    idle           \* history: per session, the seconds since add_context last wrote its key and whether that call succeeded

vars == <<serial, config, strategy, summary_history, now, window_size, redis, ttl, index, id_to_memory, next_id,
          fsIndex, fsMap, pc, call, loc, ret, added, cleared, committed,
          readable, saved, outcomes, idle>>

wmVars == <<window_size, redis, ttl>>
sumVars == <<strategy, summary_history>>
ltmVars == <<index, id_to_memory, next_id>>
fsVars == <<fsIndex, fsMap>>
histVars == <<added, cleared, committed, readable, saved, outcomes, idle>>

\* ----------------------------------------------------------- the store
\* a faulty key: the session id left out, one list for every session
UnscopedKey(session_id) == <<"agent: working_memory:", "s1">>
AddContextKey(session_id) == <<"agent: working_memory:", session_id>>
\* a faulty key: every clear deletes the list of one fixed session
FirstSessionKey(session_id) == AddContextKey("s1")
ClearMemoryKey(session_id) == <<"agent:working_memory:", session_id>>
Keys == {AddContextKey(s) : s \in Sessions} \cup {ClearMemoryKey(s) : s \in Sessions}

TTLSeconds == 24 * 60 * 60

\* client.lrange(key, 0, -1) decoded item by item
DecodeList(items) == [i \in 1..Len(items) |-> JsonLoads(items[i])]

\* a faulty trim: existing_list[:window_size], the oldest turns kept
KeepFirst(list, n) == IF Len(list) > n THEN SubSeq(list, 1, n) ELSE list
\* existing_list[-window_size:] when the list is longer than the window
SlidingWindow(list, n) ==
    IF Len(list) > n
    THEN IF n = 0 THEN list ELSE SubSeq(list, Len(list) - n + 1, Len(list))
    ELSE list

\* what get_context returns when its lrange succeeds
GetContextResult(session_id) == DecodeList(redis[AddContextKey(session_id)])

\* ------------------------------------------------------------- threads
NoCall == [op |-> "none"]
NoLoc == [op |-> "none"]
NoRet == [kind |-> "none"]
Returned(v) == [kind |-> "value", value |-> v]
Raised == [kind |-> "raised"]

Quiet(t) == pc[t] \in {"idle", "done"}
\* a sequential program is one calling thread
MainThread == "t1"
CanCall(t) == pc[t] = "idle" /\ (serial => t = MainThread)
AllQuiet == \A t \in Threads : Quiet(t)

\* the caller takes the result; the thread is free for its next call
Return(t) ==
    /\ pc[t] = "done"
    /\ pc' = [pc EXCEPT ![t] = "idle"]
    /\ call' = [call EXCEPT ![t] = NoCall]
    /\ ret' = [ret EXCEPT ![t] = NoRet]
    /\ readable' = [readable EXCEPT ![t] = {}]
    /\ UNCHANGED <<serial, config, sumVars, now, wmVars, ltmVars, fsVars, loc, added, cleared, committed, saved, outcomes, idle>>

\* ===================================================== WorkingMemory
WritingTo(t, session_id) == loc[t].op = "add_context" /\ loc[t].session_id = session_id
ReadingFrom(t, session_id) == loc[t].op = "get_context" /\ loc[t].session_id = session_id

\* add_context, lines 59-67: build round_data and the key
EnterAddContext(t, session_id, role, content, metadata) ==
    /\ now' = now + 1
    /\ loc' = [loc EXCEPT ![t] =
                 [op |-> "add_context",
                  session_id |-> session_id,
                  key |-> AddContextKey(session_id),
                  round_data |-> [role |-> role, content |-> content,
                                  timestamp |-> now,
                                  metadata |-> OrEmptyDict(metadata)],
                  existing_list |-> <<>>,
                  i |-> 0]]
    /\ pc' = [pc EXCEPT ![t] = "ac_lrange"]
    /\ ret' = [ret EXCEPT ![t] = NoRet]
    /\ cleared' = [cleared EXCEPT ![session_id].since = FALSE]
    /\ committed' = [committed EXCEPT ![session_id].overlapped =
                        @ \/ \E u \in Threads : WritingTo(u, session_id)]

AddContextCall(t, session_id, role, content, metadata) ==
    /\ CanCall(t)
    /\ now < MaxClock
    /\ call' = [call EXCEPT ![t] = [op |-> "add_context", session_id |-> session_id]]
    /\ EnterAddContext(t, session_id, role, content, metadata)
    /\ UNCHANGED <<serial, config, sumVars, wmVars, ltmVars, fsVars, added, readable, saved, outcomes, idle>>

\* lines 70-78: read the list, append the turn, trim to the window
AcLrange(t) ==
    /\ pc[t] = "ac_lrange"
    /\ loc' = [loc EXCEPT ![t].existing_list =
                 SlidingWindow(Append(DecodeList(redis[loc[t].key]), loc[t].round_data),
                               window_size)]
    /\ pc' = [pc EXCEPT ![t] = "ac_delete"]
    /\ UNCHANGED <<serial, config, sumVars, now, wmVars, ltmVars, fsVars, call, ret, histVars>>

\* line 81: client.delete(key)
AcDelete(t) ==
    /\ pc[t] = "ac_delete"
    /\ redis' = [redis EXCEPT ![loc[t].key] = <<>>]
    /\ ttl' = [ttl EXCEPT ![loc[t].key] = <<>>]
    /\ loc' = [loc EXCEPT ![t].i = 1]
    /\ pc' = [pc EXCEPT ![t] = IF Len(loc[t].existing_list) = 0 THEN "ac_expire" ELSE "ac_rpush"]
    /\ idle' = [idle EXCEPT ![loc[t].session_id] = [since |-> 0, ok |-> FALSE]]
    /\ UNCHANGED <<serial, config, sumVars, now, window_size, ltmVars, fsVars, call, ret, added, cleared,
                   committed, readable, saved, outcomes>>

\* lines 82-83: one client.rpush of the loop
AcRpush(t) ==
    /\ pc[t] = "ac_rpush"
    /\ redis' = [redis EXCEPT ![loc[t].key] =
                   Append(@, JsonDumps(loc[t].existing_list[loc[t].i]))]
    /\ loc' = [loc EXCEPT ![t].i = @ + 1]
    /\ pc' = [pc EXCEPT ![t] = IF loc[t].i = Len(loc[t].existing_list) THEN "ac_expire" ELSE "ac_rpush"]
    /\ IF loc[t].i = Len(loc[t].existing_list)
       THEN /\ committed' = [committed EXCEPT ![loc[t].session_id].list = loc[t].existing_list]
            /\ readable' = [u \in Threads |->
                               IF ReadingFrom(u, loc[t].session_id)
                               THEN readable[u] \cup {loc[t].existing_list}
                               ELSE readable[u]]
       ELSE UNCHANGED <<committed, readable>>
    /\ idle' = [idle EXCEPT ![loc[t].session_id] = [since |-> 0, ok |-> FALSE]]
    /\ UNCHANGED <<serial, config, sumVars, now, window_size, ttl, ltmVars, fsVars, call, ret, added, cleared, saved, outcomes>>

\* where a finished add_context goes: back to the caller
AfterAddContext(t) == IF call[t].op = "add_interaction" THEN "ai_after_wm" ELSE "done"

\* lines 86-89: client.expire(key, 86400); return True
AcExpire(t) ==
    /\ pc[t] = "ac_expire"
    /\ ttl' = [ttl EXCEPT ![loc[t].key] = IF redis[loc[t].key] = <<>> THEN <<>> ELSE <<TTLSeconds>>]
    /\ added' = [added EXCEPT ![loc[t].session_id] = Append(@, loc[t].round_data)]
    /\ ret' = [ret EXCEPT ![t] = Returned(TRUE)]
    /\ pc' = [pc EXCEPT ![t] = AfterAddContext(t)]
    /\ loc' = [loc EXCEPT ![t] = NoLoc]
    /\ idle' = [idle EXCEPT ![loc[t].session_id] = [since |-> 0, ok |-> TRUE]]
    /\ UNCHANGED <<serial, config, sumVars, now, window_size, redis, ltmVars, fsVars, call, cleared,
                   committed, readable, saved, outcomes>>

\* a client call of add_context raises (the store is unavailable); lines 90-92:
\* log and return False, the list left as the calls before it made it
AcFail(t) ==
    /\ pc[t] \in {"ac_lrange", "ac_delete", "ac_rpush", "ac_expire"}
    /\ ret' = [ret EXCEPT ![t] = Returned(FALSE)]
    /\ pc' = [pc EXCEPT ![t] = AfterAddContext(t)]
    /\ loc' = [loc EXCEPT ![t] = NoLoc]
    /\ committed' = [committed EXCEPT ![loc[t].session_id].list = DecodeList(redis[loc[t].key])]
    /\ UNCHANGED <<serial, config, sumVars, now, wmVars, ltmVars, fsVars, call, added, cleared, readable,
                   saved, outcomes, idle>>

\* get_context, lines 104-105
GetContextCall(t, session_id) ==
    /\ CanCall(t)
    /\ call' = [call EXCEPT ![t] = [op |-> "get_context", session_id |-> session_id]]
    /\ loc' = [loc EXCEPT ![t] = [op |-> "get_context", session_id |-> session_id]]
    /\ pc' = [pc EXCEPT ![t] = "gc_lrange"]
    /\ ret' = [ret EXCEPT ![t] = NoRet]
    /\ readable' = [readable EXCEPT ![t] = {committed[session_id].list}]
    /\ UNCHANGED <<serial, config, sumVars, now, wmVars, ltmVars, fsVars, added, cleared, committed, saved, outcomes, idle>>

\* where a finished get_context goes: back to the caller
AfterGetContext(t) == IF call[t].op = "get_agent_context" THEN "gac_after_wm" ELSE "done"

\* lines 106-107: lrange and decode
GcLrange(t) ==
    /\ pc[t] = "gc_lrange"
    /\ ret' = [ret EXCEPT ![t] = Returned(GetContextResult(loc[t].session_id))]
    /\ pc' = [pc EXCEPT ![t] = AfterGetContext(t)]
    /\ loc' = [loc EXCEPT ![t] = NoLoc]
    \* what the read found, for the claims
    /\ call' = [call EXCEPT ![t] =
                  IF call[t].op = "get_context"
                  THEN [op |-> "get_context", session_id |-> loc[t].session_id,
                        idle |-> idle[loc[t].session_id]]
                  ELSE [call[t] EXCEPT !.wm = "ok"]]
    /\ UNCHANGED <<serial, config, sumVars, now, wmVars, ltmVars, fsVars, histVars>>

\* client.lrange raises (the store is unavailable); lines 108-110: log and return []
GcFail(t) ==
    /\ pc[t] = "gc_lrange"
    /\ ret' = [ret EXCEPT ![t] = Returned(<<>>)]
    /\ pc' = [pc EXCEPT ![t] = AfterGetContext(t)]
    /\ loc' = [loc EXCEPT ![t] = NoLoc]
    /\ call' = [call EXCEPT ![t] =
                  IF call[t].op = "get_context"
                  THEN [op |-> "get_context", session_id |-> loc[t].session_id,
                        idle |-> idle[loc[t].session_id], failed |-> TRUE]
                  ELSE [call[t] EXCEPT !.wm = "failed"]]
    /\ UNCHANGED <<serial, config, sumVars, now, wmVars, ltmVars, fsVars, histVars>>

\* clear_memory, lines 144-148: delete the key and return True
ClearMemory(t, session_id) ==
    /\ CanCall(t)
    /\ call' = [call EXCEPT ![t] = [op |-> "clear_memory", session_id |-> session_id]]
    /\ redis' = [redis EXCEPT ![ClearMemoryKey(session_id)] = <<>>]
    /\ ttl' = [ttl EXCEPT ![ClearMemoryKey(session_id)] = <<>>]
    /\ ret' = [ret EXCEPT ![t] = Returned(TRUE)]
    /\ pc' = [pc EXCEPT ![t] = "done"]
    /\ cleared' = [cleared EXCEPT ![session_id] = [ever |-> TRUE, since |-> TRUE]]
    /\ UNCHANGED <<serial, config, sumVars, now, window_size, ltmVars, fsVars, loc, added, committed,
                   readable, saved, outcomes, idle>>

\* the store's clock advances by TickSeconds: a key whose expiry is reached is
\* removed with its list, any other expiry is that much nearer
TickSeconds == 12 * 60 * 60
Expired(k) == ttl[k] # <<>> /\ ttl[k][1] <= TickSeconds
Tick ==
    /\ redis' = [k \in Keys |-> IF Expired(k) THEN <<>> ELSE redis[k]]
    /\ ttl' = [k \in Keys |->
                 IF ttl[k] = <<>> \/ Expired(k) THEN <<>> ELSE <<ttl[k][1] - TickSeconds>>]
    /\ idle' = [s \in Sessions |->
                  [idle[s] EXCEPT !.since = Min(@ + TickSeconds, TTLSeconds + TickSeconds)]]
    /\ committed' = [s \in Sessions |->
                       IF Expired(AddContextKey(s))
                       THEN [committed[s] EXCEPT !.list = <<>>]
                       ELSE committed[s]]
    /\ UNCHANGED <<serial, config, sumVars, now, window_size, ltmVars, fsVars, pc, call, loc, ret, added,
                   cleared, readable, saved, outcomes>>

\* ==================================================== LongTermMemory
\* The float32 numbers of the index: whole + tiny * 2^-30 for a vector component,
\* whole + tiny * 2^-60 for a distance.  A float32 has a 24-bit significand, so a
\* number with a whole part other than 0 has no tiny part.
F32(whole, tiny) == [whole |-> whole, tiny |-> IF whole = 0 THEN tiny ELSE 0]

\* the embedder: a deterministic text -> vector function; "c" is a text whose vector
\* is next to that of "a"
Embed(text) ==
    CASE text = "a" -> <<F32(0, 0)>>
      [] text = "b" -> <<F32(2, 0)>>
      [] text = "c" -> <<F32(0, 1)>>
      [] OTHER -> <<F32(1, 0)>>

\* float32 x - y, d * d and a + b, each rounded to float32
F32Sub(x, y) == F32(x.whole - y.whole, x.tiny - y.tiny)
F32Square(d) == F32(d.whole * d.whole, d.tiny * d.tiny)
F32Add(a, b) == F32(a.whole + b.whole, a.tiny + b.tiny)
F32Less(a, b) == a.whole < b.whole \/ (a.whole = b.whole /\ a.tiny < b.tiny)

\* IndexFlatL2: squared Euclidean distance
RECURSIVE SumSquares(_, _, _)
SumSquares(u, v, i) ==
    IF i > Len(u) THEN F32(0, 0)
    ELSE F32Add(F32Square(F32Sub(u[i], v[i])), SumSquares(u, v, i + 1))
SquaredL2(u, v) == SumSquares(u, v, 1)

\* 1.0 + float(dist) in binary64: the doubles from 1 to 2 are 2^-52 apart, so a
\* distance below 2^-53 is rounded away
OnePlus(dist) == 1 + dist.whole

\* index.search(query, k): the k nearest positions (0-based), nearest first,
\* equal distances by position
RECURSIVE NearestFrom(_, _, _, _)
NearestFrom(idx, qv, k, left) ==
    IF k = 0 \/ left = {} THEN <<>>
    ELSE LET best == CHOOSE p \in left : \A o \in left :
                         \/ F32Less(SquaredL2(idx[p + 1], qv), SquaredL2(idx[o + 1], qv))
                         \/ SquaredL2(idx[p + 1], qv) = SquaredL2(idx[o + 1], qv) /\ p <= o
         IN <<[pos |-> best, dist |-> SquaredL2(idx[best + 1], qv)]>>
                \o NearestFrom(idx, qv, k - 1, left \ {best})
IndexSearch(idx, qv, k) == NearestFrom(idx, qv, k, 0..(Len(idx) - 1))

\* search_similar, lines 87-113, on an instance state (idx, table); the similarity
\* 1.0 / (1.0 + float(dist)) is kept as the fraction num/den, den the rounded sum
\* a faulty filter: logically deleted records are left out of the results
RECURSIVE KeepLive(_, _)
KeepLive(hits, table) ==
    IF hits = <<>> THEN <<>>
    ELSE LET h == Head(hits)
         IN (IF h.pos >= 0 /\ h.pos \in DOMAIN table /\ "deleted_at" \notin DOMAIN table[h.pos]
             THEN <<[id |-> h.pos,
                     similarity |-> [num |-> 1, den |-> OnePlus(h.dist)],
                     distance |-> h.dist,
                     memory |-> table[h.pos]]>>
             ELSE <<>>) \o KeepLive(Tail(hits), table)
RECURSIVE KeepKnown(_, _)
KeepKnown(hits, table) ==
    IF hits = <<>> THEN <<>>
    ELSE LET h == Head(hits)
         IN (IF h.pos >= 0 /\ h.pos \in DOMAIN table
             THEN <<[id |-> h.pos,
                     similarity |-> [num |-> 1, den |-> OnePlus(h.dist)],
                     distance |-> h.dist,
                     memory |-> table[h.pos]]>>
             ELSE <<>>) \o KeepKnown(Tail(hits), table)
SearchSimilar(idx, table, query_text, top_k) ==
    IF Len(idx) = 0 THEN <<>>
    ELSE KeepKnown(IndexSearch(idx, Embed(query_text), Min(top_k, Len(idx))), table)

\* get_memory, line 120: self.id_to_memory.get(memory_id)
GetMemory(table, memory_id) ==
    IF memory_id \in DOMAIN table THEN table[memory_id] ELSE PyNone

\* get_stats, lines 213-218
GetStats ==
    [total_memories |-> Cardinality(DOMAIN id_to_memory), index_size |-> Len(index)]

\* str(int) and int(str) on decimal digit strings, kept as sequences of digits
DigitChars == <<"0", "1", "2", "3", "4", "5", "6", "7", "8", "9">>
DigitValue(c) == CHOOSE d \in 0..9 : DigitChars[d + 1] = c
RECURSIVE IntToStr(_)
IntToStr(n) ==
    IF n < 10 THEN <<DigitChars[n + 1]>>
    ELSE Append(IntToStr(n \div 10), DigitChars[(n % 10) + 1])
RECURSIVE StrToInt(_)
StrToInt(str) ==
    IF Len(str) = 0 THEN 0
    ELSE 10 * StrToInt(SubSeq(str, 1, Len(str) - 1)) + DigitValue(str[Len(str)])

\* json.dump(self.id_to_memory): the keys of a JSON object are strings
JsonDumpMap(table) ==
    [k \in {IntToStr(i) : i \in DOMAIN table} |->
        table[CHOOSE i \in DOMAIN table : IntToStr(i) = k]]
\* a faulty key conversion: {int(k) + 1: v ...}
ShiftedKeys(memory_dict) ==
    [i \in {StrToInt(k) + 1 : k \in DOMAIN memory_dict} |->
        memory_dict[CHOOSE k \in DOMAIN memory_dict : StrToInt(k) + 1 = i]]
\* {int(k): v for k, v in memory_dict.items()}
IntKeys(memory_dict) ==
    [i \in {StrToInt(k) : k \in DOMAIN memory_dict} |->
        memory_dict[CHOOSE k \in DOMAIN memory_dict : StrToInt(k) = i]]

\* max(int(k) for k in self.id_to_memory.keys())
MaxKey(table) == CHOOSE m \in DOMAIN table : \A i \in DOMAIN table : i <= m

\* threads that will still read the clock in their current call
ClockPending == Cardinality({t \in Threads : pc[t] \in {"am_embed", "am_index", "am_build"}})
\* vectors the calls in flight will still add to the index
IndexPending == Cardinality({t \in Threads : pc[t] \in {"am_embed", "am_index"}})

\* where a finished add_memory goes: back to the caller
AfterAddMemory(t) ==
    CASE call[t].op = "add_interaction" -> "ai_after_ltm"
      [] call[t].op = "add_fact" -> "af_after_ltm"
      [] OTHER -> "done"

\* LongTermMemory(), lines 34-38: a new instance over the same artifacts
NewInstance(t) ==
    /\ CanCall(t)
    /\ ~(index = <<>> /\ id_to_memory = EmptyDict /\ next_id = 0)
    /\ index' = <<>>
    /\ id_to_memory' = EmptyDict
    /\ next_id' = 0
    /\ UNCHANGED <<serial, config, sumVars, now, wmVars, fsVars, pc, call, loc, ret, histVars>>

\* add_memory is entered, line 52
EnterAddMemory(t, memory_text, metadata) ==
    /\ loc' = [loc EXCEPT ![t] =
                 [op |-> "add_memory", memory_text |-> memory_text,
                  metadata |-> metadata]]
    /\ pc' = [pc EXCEPT ![t] = "am_embed"]
    /\ ret' = [ret EXCEPT ![t] = NoRet]

AddMemoryCall(t, memory_text, metadata) ==
    /\ CanCall(t)
    /\ now + ClockPending < MaxClock
    /\ Len(index) + IndexPending < MaxIndex
    /\ call' = [call EXCEPT ![t] =
                  [op |-> "add_memory",
                   \* what the call found, for the claims
                   before |-> [index |-> index, id_to_memory |-> id_to_memory,
                               next_id |-> next_id]]]
    /\ EnterAddMemory(t, memory_text, metadata)
    /\ UNCHANGED <<serial, config, sumVars, now, wmVars, ltmVars, fsVars, histVars>>

\* line 54: embedding = self.embedding_util.get_embedding(memory_text)
AmEmbed(t) ==
    /\ pc[t] = "am_embed"
    /\ loc' = [loc EXCEPT ![t] = [op |-> "add_memory", memory_text |-> loc[t].memory_text,
                                  metadata |-> loc[t].metadata,
                                  embedding |-> Embed(loc[t].memory_text)]]
    /\ pc' = [pc EXCEPT ![t] = "am_index"]
    /\ UNCHANGED <<serial, config, sumVars, now, wmVars, ltmVars, fsVars, call, ret, histVars>>

\* lines 72-74: log and re-raise; a direct call notes the line that raised
AmRaise(t, line) ==
    /\ ret' = [ret EXCEPT ![t] = Raised]
    /\ call' = [call EXCEPT ![t] =
                  IF call[t].op = "add_memory"
                  THEN [op |-> "add_memory", before |-> call[t].before, failed_at |-> line]
                  ELSE call[t]]
    /\ loc' = [loc EXCEPT ![t] = NoLoc]
    /\ pc' = [pc EXCEPT ![t] = AfterAddMemory(t)]

\* line 54 raises; lines 72-74 log and re-raise
AmEmbedFail(t) ==
    /\ pc[t] = "am_embed"
    /\ AmRaise(t, "embed")
    /\ UNCHANGED <<serial, config, sumVars, now, wmVars, ltmVars, fsVars, histVars>>

\* line 57 raises (the index refuses the vector); lines 72-74
AmIndexAddFail(t) ==
    /\ pc[t] = "am_index"
    /\ AmRaise(t, "index")
    /\ UNCHANGED <<serial, config, sumVars, now, wmVars, ltmVars, fsVars, histVars>>

\* lines 60-65 raise while the record is built, the vector already added; lines 72-74
AmBuildFail(t) ==
    /\ pc[t] = "am_build"
    /\ AmRaise(t, "build")
    /\ UNCHANGED <<serial, config, sumVars, now, wmVars, ltmVars, fsVars, histVars>>

\* a faulty handler: the counter is advanced although the record was not stored
AmStoreFailAdvancing(t) ==
    /\ pc[t] = "am_store"
    /\ AmRaise(t, "store")
    /\ next_id' = next_id + 1
    /\ UNCHANGED <<serial, config, sumVars, now, wmVars, index, id_to_memory, fsVars, histVars>>

\* line 60 raises in the assignment to self.id_to_memory, the vector already added;
\* lines 72-74
AmStoreFail(t) ==
    /\ pc[t] = "am_store"
    /\ AmRaise(t, "store")
    /\ UNCHANGED <<serial, config, sumVars, now, wmVars, ltmVars, fsVars, histVars>>

\* line 57: self.index.add(...)
AmIndexAdd(t) ==
    /\ pc[t] = "am_index"
    /\ index' = Append(index, loc[t].embedding)
    /\ pc' = [pc EXCEPT ![t] = "am_build"]
    /\ UNCHANGED <<serial, config, sumVars, now, wmVars, id_to_memory, next_id, fsVars, call, loc, ret, histVars>>

\* lines 60-65, the right-hand side: the record, with "id" read from self.next_id
AmBuild(t) ==
    /\ pc[t] = "am_build"
    /\ now' = now + 1
    /\ loc' = [loc EXCEPT ![t] =
                 [op |-> "add_memory",
                  record |-> [text |-> loc[t].memory_text,
                              metadata |-> OrEmptyDict(loc[t].metadata),
                              created_at |-> now,
                              id |-> next_id]]]
    /\ pc' = [pc EXCEPT ![t] = "am_store"]
    /\ UNCHANGED <<serial, config, sumVars, wmVars, ltmVars, fsVars, call, ret, histVars>>

\* line 60, the assignment: self.id_to_memory[self.next_id] = record
AmStore(t) ==
    /\ pc[t] = "am_store"
    /\ id_to_memory' = DictSet(id_to_memory, next_id, loc[t].record)
    /\ pc' = [pc EXCEPT ![t] = "am_read_id"]
    /\ UNCHANGED <<serial, config, sumVars, now, wmVars, index, next_id, fsVars, call, loc, ret, histVars>>

\* line 67: memory_id = self.next_id
AmReadId(t) ==
    /\ pc[t] = "am_read_id"
    /\ loc' = [loc EXCEPT ![t] = [op |-> "add_memory", record |-> loc[t].record,
                                  memory_id |-> next_id]]
    /\ pc' = [pc EXCEPT ![t] = "am_incr_load"]
    /\ UNCHANGED <<serial, config, sumVars, now, wmVars, ltmVars, fsVars, call, ret, histVars>>

\* line 68, self.next_id += 1: the load of self.next_id
AmIncrLoad(t) ==
    /\ pc[t] = "am_incr_load"
    /\ loc' = [loc EXCEPT ![t] = [op |-> "add_memory", record |-> loc[t].record,
                                  memory_id |-> loc[t].memory_id,
                                  loaded |-> next_id]]
    /\ pc' = [pc EXCEPT ![t] = "am_incr_store"]
    /\ UNCHANGED <<serial, config, sumVars, now, wmVars, ltmVars, fsVars, call, ret, histVars>>

\* line 68, the store of the incremented value; line 71: return memory_id
AmIncrStore(t) ==
    /\ pc[t] = "am_incr_store"
    /\ next_id' = loc[t].loaded + 1
    /\ ret' = [ret EXCEPT ![t] = Returned(loc[t].memory_id)]
    /\ call' = [call EXCEPT ![t] =
                  IF call[t].op = "add_memory"
                  THEN [op |-> "add_memory", record |-> loc[t].record]
                  ELSE call[t]]
    /\ loc' = [loc EXCEPT ![t] = NoLoc]
    /\ pc' = [pc EXCEPT ![t] = AfterAddMemory(t)]
    /\ UNCHANGED <<serial, config, sumVars, now, wmVars, index, id_to_memory, fsVars, histVars>>

\* search_similar, lines 87-113
SearchSimilarCall(t, query_text, top_k) ==
    /\ CanCall(t)
    /\ call' = [call EXCEPT ![t] =
                  [op |-> "search_similar", query_text |-> query_text, top_k |-> top_k,
                   failed |-> FALSE]]
    /\ ret' = [ret EXCEPT ![t] = Returned(SearchSimilar(index, id_to_memory, query_text, top_k))]
    /\ pc' = [pc EXCEPT ![t] = "done"]
    /\ UNCHANGED <<serial, config, sumVars, now, wmVars, ltmVars, fsVars, loc, histVars>>

\* line 93 raises (the embedder fails); lines 114-116: log and return []
SearchSimilarFail(t, query_text, top_k) ==
    /\ CanCall(t)
    /\ Len(index) > 0
    /\ call' = [call EXCEPT ![t] =
                  [op |-> "search_similar", query_text |-> query_text, top_k |-> top_k,
                   failed |-> TRUE]]
    /\ ret' = [ret EXCEPT ![t] = Returned(<<>>)]
    /\ pc' = [pc EXCEPT ![t] = "done"]
    /\ UNCHANGED <<serial, config, sumVars, now, wmVars, ltmVars, fsVars, loc, histVars>>

\* get_stats, line 214: "total_memories": len(self.id_to_memory)
GetStatsCall(t) ==
    /\ CanCall(t)
    /\ call' = [call EXCEPT ![t] = [op |-> "get_stats"]]
    /\ loc' = [loc EXCEPT ![t] =
                 [op |-> "get_stats", total_memories |-> Cardinality(DOMAIN id_to_memory)]]
    /\ pc' = [pc EXCEPT ![t] = "gs_index_size"]
    /\ ret' = [ret EXCEPT ![t] = NoRet]
    /\ UNCHANGED <<serial, config, sumVars, now, wmVars, ltmVars, fsVars, histVars>>

\* get_stats, lines 215-218: "index_size": self.index.ntotal; return the dict
GsIndexSize(t) ==
    /\ pc[t] = "gs_index_size"
    /\ ret' = [ret EXCEPT ![t] =
                 Returned([total_memories |-> loc[t].total_memories,
                           index_size |-> Len(index)])]
    /\ loc' = [loc EXCEPT ![t] = NoLoc]
    /\ pc' = [pc EXCEPT ![t] = "done"]
    /\ UNCHANGED <<serial, config, sumVars, now, wmVars, ltmVars, fsVars, call, histVars>>

\* update_memory, lines 125-136
UpdateMemory(t, memory_id, text, metadata) ==
    /\ CanCall(t)
    /\ call' = [call EXCEPT ![t] = [op |-> "update_memory", memory_id |-> memory_id]]
    /\ IF memory_id \notin DOMAIN id_to_memory
       THEN /\ ret' = [ret EXCEPT ![t] = Returned(FALSE)]
            /\ UNCHANGED <<now, id_to_memory>>
       ELSE /\ now + ClockPending < MaxClock
            /\ now' = now + 1
            /\ LET old == id_to_memory[memory_id]
                   withText == IF Truthy(text) THEN DictSet(old, "text", text.s) ELSE old
                   withMeta == IF Truthy(metadata)
                               THEN DictSet(withText, "metadata",
                                            DictUpdate(old.metadata, metadata.items))
                               ELSE withText
               IN id_to_memory' = DictSet(id_to_memory, memory_id,
                                          DictSet(withMeta, "updated_at", now))
            /\ ret' = [ret EXCEPT ![t] = Returned(TRUE)]
    /\ pc' = [pc EXCEPT ![t] = "done"]
    /\ UNCHANGED <<serial, config, sumVars, wmVars, index, next_id, fsVars, loc, histVars>>

\* delete_memory, lines 143-148
DeleteMemory(t, memory_id) ==
    /\ CanCall(t)
    /\ call' = [call EXCEPT ![t] = [op |-> "delete_memory", memory_id |-> memory_id]]
    /\ IF memory_id \in DOMAIN id_to_memory
       THEN /\ now + ClockPending < MaxClock
            /\ now' = now + 1
            /\ id_to_memory' = DictSet(id_to_memory, memory_id,
                                       DictSet(id_to_memory[memory_id], "deleted_at", now))
            /\ ret' = [ret EXCEPT ![t] = Returned(TRUE)]
       ELSE /\ ret' = [ret EXCEPT ![t] = Returned(FALSE)]
            /\ UNCHANGED <<now, id_to_memory>>
    /\ pc' = [pc EXCEPT ![t] = "done"]
    /\ UNCHANGED <<serial, config, sumVars, wmVars, index, next_id, fsVars, loc, histVars>>

\* save_index is entered, lines 165-167
SaveIndexCall(t) ==
    /\ CanCall(t)
    /\ call' = [call EXCEPT ![t] = [op |-> "save_index"]]
    /\ pc' = [pc EXCEPT ![t] = "si_write_index"]
    /\ ret' = [ret EXCEPT ![t] = NoRet]
    /\ UNCHANGED <<serial, config, sumVars, now, wmVars, ltmVars, fsVars, loc, histVars>>

\* line 169: faiss.write_index(self.index, index_path)
SiWriteIndex(t) ==
    /\ pc[t] = "si_write_index"
    /\ fsIndex' = [state |-> "ok", data |-> index]
    /\ saved' = [valid |-> FALSE]
    /\ pc' = [pc EXCEPT ![t] = "si_dump_map"]
    /\ UNCHANGED <<serial, config, sumVars, now, wmVars, ltmVars, fsMap, call, loc, ret, added, cleared,
                   committed, readable, outcomes, idle>>

\* lines 167-169 fail (the directory or the file cannot be written); lines 175-177
SiWriteIndexFail(t) ==
    /\ pc[t] = "si_write_index"
    /\ \E after \in {fsIndex, [state |-> "corrupt"]} :
           /\ fsIndex' = after
           /\ saved' = IF after = fsIndex THEN saved ELSE [valid |-> FALSE]
    /\ ret' = [ret EXCEPT ![t] = Returned(FALSE)]
    /\ pc' = [pc EXCEPT ![t] = "done"]
    /\ UNCHANGED <<serial, config, sumVars, now, wmVars, ltmVars, fsMap, call, loc, added, cleared,
                   committed, readable, outcomes, idle>>

\* lines 170-174: json.dump(self.id_to_memory, f); return True
SiDumpMap(t) ==
    /\ pc[t] = "si_dump_map"
    /\ fsMap' = [state |-> "ok", data |-> JsonDumpMap(id_to_memory)]
    /\ saved' = [valid |-> TRUE, index |-> index, id_to_memory |-> id_to_memory]
    /\ ret' = [ret EXCEPT ![t] = Returned(TRUE)]
    /\ pc' = [pc EXCEPT ![t] = "done"]
    /\ UNCHANGED <<serial, config, sumVars, now, wmVars, ltmVars, fsIndex, call, loc, added, cleared,
                   committed, readable, outcomes, idle>>

\* lines 170-171 fail: open() fails (the file is as it was) or the write stops
\* part-way (the file is cut short); lines 175-177
SiDumpMapFail(t) ==
    /\ pc[t] = "si_dump_map"
    /\ fsMap' \in {fsMap, [state |-> "corrupt"]}
    /\ ret' = [ret EXCEPT ![t] = Returned(FALSE)]
    /\ pc' = [pc EXCEPT ![t] = "done"]
    /\ UNCHANGED <<serial, config, sumVars, now, wmVars, ltmVars, fsIndex, call, loc, histVars>>

\* load_index is entered, line 191
LoadIndexCall(t) ==
    /\ CanCall(t)
    /\ call' = [call EXCEPT ![t] =
                  [op |-> "load_index",
                   fresh |-> (index = <<>> /\ id_to_memory = EmptyDict /\ next_id = 0),
                   from_save |-> saved.valid]]
    /\ pc' = [pc EXCEPT ![t] = "li_read_index"]
    /\ ret' = [ret EXCEPT ![t] = NoRet]
    /\ UNCHANGED <<serial, config, sumVars, now, wmVars, ltmVars, fsVars, loc, histVars>>

\* line 192: self.index = faiss.read_index(index_path)
LiReadIndex(t) ==
    /\ pc[t] = "li_read_index"
    /\ fsIndex.state = "ok"
    /\ index' = fsIndex.data
    /\ pc' = [pc EXCEPT ![t] = "li_load_map"]
    /\ UNCHANGED <<serial, config, sumVars, now, wmVars, id_to_memory, next_id, fsVars, call, loc, ret, histVars>>

\* line 192 raises (no such file, or not an index); lines 204-209
LiReadIndexFail(t) ==
    /\ pc[t] = "li_read_index"
    /\ fsIndex.state # "ok"
    /\ ret' = [ret EXCEPT ![t] = Returned(FALSE)]
    /\ pc' = [pc EXCEPT ![t] = "done"]
    /\ UNCHANGED <<serial, config, sumVars, now, wmVars, ltmVars, fsVars, call, loc, histVars>>

\* lines 193-203: read the table, restore next_id, return True
LiLoadMap(t) ==
    /\ pc[t] = "li_load_map"
    /\ fsMap.state = "ok"
    /\ id_to_memory' = IntKeys(fsMap.data)
    /\ next_id' = IF IntKeys(fsMap.data) # EmptyDict
                  THEN MaxKey(IntKeys(fsMap.data)) + 1
                  ELSE next_id
    /\ ret' = [ret EXCEPT ![t] = Returned(TRUE)]
    /\ pc' = [pc EXCEPT ![t] = "done"]
    /\ UNCHANGED <<serial, config, sumVars, now, wmVars, index, fsVars, call, loc, histVars>>

\* lines 193-194 raise (no such file, or not JSON); lines 204-209
LiLoadMapFail(t) ==
    /\ pc[t] = "li_load_map"
    /\ fsMap.state # "ok"
    /\ ret' = [ret EXCEPT ![t] = Returned(FALSE)]
    /\ pc' = [pc EXCEPT ![t] = "done"]
    /\ UNCHANGED <<serial, config, sumVars, now, wmVars, ltmVars, fsVars, call, loc, histVars>>

\* ===================================================== MemoryManager
Priorities == {"LOW", "MEDIUM", "HIGH", "CRITICAL"}

\* a faulty routing test: priority.value >= MemoryPriority.MEDIUM.value
AtLeastMedium(priority) == priority \in {"MEDIUM", "HIGH", "CRITICAL"}
\* line 77: priority in (MemoryPriority.HIGH, MemoryPriority.CRITICAL)
StoresLongTerm(priority) == priority \in {"HIGH", "CRITICAL"}

\* lines 78-84: the long-term record's metadata
InteractionMeta(session_id, role, priority, metadata) ==
    DictUpdate([k \in {"session_id", "role", "priority", "type"} |->
                   CASE k = "session_id" -> session_id
                     [] k = "role" -> role
                     [] k = "priority" -> priority
                     [] k = "type" -> "interaction"],
               OrEmptyDict(metadata))

\* add_interaction, lines 67-74: call working_memory.add_context
AddInteractionCall(t, session_id, role, content, priority, metadata) ==
    /\ CanCall(t)
    /\ now + (IF StoresLongTerm(priority) THEN 2 ELSE 1) <= MaxClock
    /\ StoresLongTerm(priority) => Len(index) < MaxIndex
    /\ call' = [call EXCEPT ![t] =
                  [op |-> "add_interaction", session_id |-> session_id, role |-> role,
                   content |-> content, priority |-> priority, metadata |-> metadata,
                   \* what the call found, for the claims
                   before |-> [context |-> GetContextResult(session_id),
                               added |-> Len(added[session_id]),
                               total_memories |-> GetStats.total_memories],
                   wm |-> "pending", ltm |-> "pending"]]
    /\ EnterAddContext(t, session_id, role, content, metadata)
    /\ UNCHANGED <<serial, config, sumVars, wmVars, ltmVars, fsVars, added, readable, saved, outcomes, idle>>

\* lines 69-85: add_context has returned and its result is dropped; route by priority
AiRoute(t) ==
    /\ pc[t] = "ai_after_wm"
    /\ LET wm == IF ret[t] = Returned(TRUE) THEN "ok" ELSE "failed"
       IN IF StoresLongTerm(call[t].priority)
          THEN /\ call' = [call EXCEPT ![t].wm = wm]
               /\ EnterAddMemory(t, call[t].content,
                                 PyDict(InteractionMeta(call[t].session_id, call[t].role,
                                                        call[t].priority, call[t].metadata)))
          ELSE /\ call' = [call EXCEPT ![t].wm = wm, ![t].ltm = "skipped"]
               /\ ret' = [ret EXCEPT ![t] = Returned(TRUE)]
               /\ pc' = [pc EXCEPT ![t] = "done"]
               /\ UNCHANGED loc
    /\ UNCHANGED <<serial, config, sumVars, now, wmVars, ltmVars, fsVars, histVars>>

\* lines 85-91: add_memory has returned (return True) or raised (return False)
AiFinish(t) ==
    /\ pc[t] = "ai_after_ltm"
    /\ LET ltm == IF ret[t] = Raised THEN "failed" ELSE "ok"
           result == ret[t] # Raised
       IN /\ call' = [call EXCEPT ![t].ltm = ltm]
          /\ ret' = [ret EXCEPT ![t] = Returned(result)]
          /\ outcomes' = outcomes \cup {[wm |-> call[t].wm, ltm |-> ltm, result |-> result]}
    /\ pc' = [pc EXCEPT ![t] = "done"]
    /\ UNCHANGED <<serial, config, sumVars, now, wmVars, ltmVars, fsVars, loc, added, cleared, committed, readable, saved, idle>>

\* ------------------------------------------------- get_agent_context
\* text is a sequence of characters
RecentHeader ==
    <<"=", "=", "=", " ", "R", "e", "c", "e", "n", "t", " ", "C", "o", "n", "v", "e", "r", "s", "a", "t", "i", "o", "n", " ", "=", "=", "=">>
KnowledgeHeader ==
    <<"\n", "=", "=", "=", " ", "R", "e", "l", "e", "v", "a", "n", "t", " ", "K", "n", "o", "w", "l", "e", "d", "g", "e", " ", "=", "=", "=">>
TruncationMarker ==
    <<"\n", "[", ".", ".", ".", " ", "t", "r", "u", "n", "c", "a", "t", "e", "d", " ", ".", ".", ".", "]">>

\* the characters of the strings the callers pass
StrChars(str) ==
    CASE str = "" -> <<>>
      [] str = "user" -> <<"u", "s", "e", "r">>
      [] str = "agent" -> <<"a", "g", "e", "n", "t">>
      [] str = "interaction" -> <<"i", "n", "t", "e", "r", "a", "c", "t", "i", "o", "n">>
      [] str = "fact" -> <<"f", "a", "c", "t">>
      [] str = "unknown" -> <<"u", "n", "k", "n", "o", "w", "n">>
      [] OTHER -> <<str>>

LowerLetters ==
    <<"a", "b", "c", "d", "e", "f", "g", "h", "i", "j", "k", "l", "m", "n", "o", "p", "q", "r", "s", "t", "u", "v", "w", "x", "y", "z">>
UpperLetters ==
    <<"A", "B", "C", "D", "E", "F", "G", "H", "I", "J", "K", "L", "M", "N", "O", "P", "Q", "R", "S", "T", "U", "V", "W", "X", "Y", "Z">>
\* str.upper()
Upper(text) ==
    [i \in 1..Len(text) |->
        IF \E n \in 1..26 : LowerLetters[n] = text[i]
        THEN UpperLetters[CHOOSE n \in 1..26 : LowerLetters[n] = text[i]]
        ELSE text[i]]

\* "\n".join(parts)
RECURSIVE Join(_)
Join(parts) ==
    IF parts = <<>> THEN <<>>
    ELSE IF Len(parts) = 1 THEN parts[1]
    ELSE parts[1] \o <<"\n">> \o Join(Tail(parts))

\* f"{similarity:.2f}" of the fraction num/den: hundredths, a tie to the even one
Format2f(similarity) ==
    LET q == (100 * similarity.num) \div similarity.den
        r == (100 * similarity.num) % similarity.den
        h == IF 2 * r > similarity.den THEN q + 1
             ELSE IF 2 * r = similarity.den THEN q + (q % 2)
             ELSE q
    IN IntToStr(h \div 100) \o <<".", DigitChars[((h % 100) \div 10) + 1], DigitChars[(h % 10) + 1]>>

\* line 142-144: f"{role}: {content}"
TurnLine(turn) == Upper(StrChars(turn.role)) \o <<":", " ">> \o StrChars(turn.content)

\* lines 155-161: f"[{mem_type} | relevance: {similarity:.2f}] {text}"
KnowledgeLine(result) ==
    LET mem == result.memory
        mem_type == IF "type" \in DOMAIN mem.metadata THEN mem.metadata["type"] ELSE "unknown"
    IN <<"[">> \o StrChars(mem_type) \o <<" ", "|", " ", "r", "e", "l", "e", "v", "a", "n", "c", "e", ":", " ">>
           \o Format2f(result.similarity) \o <<"]", " ">> \o StrChars(mem.text)

\* lines 139-144: the conversation block, when the window is not empty
RecentBlock(working_context) ==
    IF working_context # <<>>
    THEN <<RecentHeader>> \o [i \in 1..Len(working_context) |-> TurnLine(working_context[i])]
    ELSE <<>>

\* lines 152-161: the knowledge block, when the search returned something
KnowledgeBlock(similar_memories) ==
    IF similar_memories # <<>>
    THEN <<KnowledgeHeader>> \o [i \in 1..Len(similar_memories) |-> KnowledgeLine(similar_memories[i])]
    ELSE <<>>

\* line 164: full_context = "\n".join(context_parts)
FullContext(working_context, similar_memories) ==
    Join(RecentBlock(working_context) \o KnowledgeBlock(similar_memories))

\* a faulty cut: the marker counted within the budget
TruncateWithin(full_context, max_chars) ==
    IF Len(full_context) > max_chars
    THEN SubSeq(full_context, 1, max_chars - Len(TruncationMarker)) \o TruncationMarker
    ELSE full_context
\* lines 165-167: full_context[:max_chars] + "\n[... truncated ...]"
Truncate(full_context, max_chars) ==
    IF Len(full_context) > max_chars
    THEN SubSeq(full_context, 1, max_chars) \o TruncationMarker
    ELSE full_context

QueryArgs == {PyNone, PyStr(""), PyStr("a"), PyStr("q")}

\* get_agent_context, lines 134-138: call working_memory.get_context
GetAgentContextCall(t, session_id, query, include_long_term) ==
    /\ CanCall(t)
    /\ call' = [call EXCEPT ![t] =
                  [op |-> "get_agent_context", session_id |-> session_id, query |-> query,
                   include_long_term |-> include_long_term,
                   working_context |-> <<>>, similar_memories |-> <<>>,
                   \* what the call found, for the claims
                   before |-> [redis |-> redis, ttl |-> ttl, index |-> index,
                               id_to_memory |-> id_to_memory, next_id |-> next_id],
                   wm |-> "pending", ltm |-> "pending"]]
    /\ loc' = [loc EXCEPT ![t] = [op |-> "get_context", session_id |-> session_id]]
    /\ pc' = [pc EXCEPT ![t] = "gc_lrange"]
    /\ ret' = [ret EXCEPT ![t] = NoRet]
    /\ readable' = [readable EXCEPT ![t] = {committed[session_id].list}]
    /\ UNCHANGED <<serial, config, sumVars, now, wmVars, ltmVars, fsVars, added, cleared, committed,
                   saved, outcomes, idle>>

\* lines 138-147: get_context has returned; search only if include_long_term and query
GacRoute(t) ==
    /\ pc[t] = "gac_after_wm"
    /\ IF call[t].include_long_term /\ Truthy(call[t].query)
       THEN /\ call' = [call EXCEPT ![t].working_context = ret[t].value]
            /\ pc' = [pc EXCEPT ![t] = "gac_search"]
       ELSE /\ call' = [call EXCEPT ![t].working_context = ret[t].value,
                                    ![t].ltm = "skipped"]
            /\ pc' = [pc EXCEPT ![t] = "gac_join"]
    /\ ret' = [ret EXCEPT ![t] = NoRet]
    /\ UNCHANGED <<serial, config, sumVars, now, wmVars, ltmVars, fsVars, loc, histVars>>

\* lines 148-151: long_term_memory.search_similar(query, top_k=retrieval_top_k)
GacSearch(t) ==
    /\ pc[t] = "gac_search"
    /\ call' = [call EXCEPT
                  ![t].similar_memories =
                      SearchSimilar(index, id_to_memory, call[t].query.s, config.retrieval_top_k),
                  ![t].ltm = "ok"]
    /\ pc' = [pc EXCEPT ![t] = "gac_join"]
    /\ UNCHANGED <<serial, config, sumVars, now, wmVars, ltmVars, fsVars, loc, ret, histVars>>

\* a faulty search: the embedder's failure is not caught and reaches the caller
GacSearchRaise(t) ==
    /\ pc[t] = "gac_search"
    /\ Len(index) > 0
    /\ call' = [call EXCEPT ![t].ltm = "failed"]
    /\ ret' = [ret EXCEPT ![t] = Raised]
    /\ pc' = [pc EXCEPT ![t] = "done"]
    /\ UNCHANGED <<serial, config, sumVars, now, wmVars, ltmVars, fsVars, loc, histVars>>

\* the embedder raises inside search_similar (long_term_memory.py lines 93, 114-116):
\* the search logs it and returns []
GacSearchFail(t) ==
    /\ pc[t] = "gac_search"
    /\ Len(index) > 0
    /\ call' = [call EXCEPT ![t].similar_memories = <<>>, ![t].ltm = "failed"]
    /\ pc' = [pc EXCEPT ![t] = "gac_join"]
    /\ UNCHANGED <<serial, config, sumVars, now, wmVars, ltmVars, fsVars, loc, ret, histVars>>

\* lines 163-169: join the parts, cut to the budget, return
GacJoin(t) ==
    /\ pc[t] = "gac_join"
    /\ ret' = [ret EXCEPT ![t] =
                 Returned(Truncate(FullContext(call[t].working_context,
                                               call[t].similar_memories),
                                   config.context_max_tokens * 4))]
    /\ pc' = [pc EXCEPT ![t] = "done"]
    /\ UNCHANGED <<serial, config, sumVars, now, wmVars, ltmVars, fsVars, call, loc, histVars>>

\* ------------------------------------------------- add_fact, clear_session
PyList(items) == [tag |-> "list", items |-> items]
UserIdArgs == {PyNone, PyStr("u1")}
TagsArgs == {PyNone, PyList(<<>>), PyList(<<"t">>)}
\* `tags or []`: None and the empty list are falsy
OrEmptyList(tags) == IF tags.tag = "list" THEN tags.items ELSE <<>>

\* a faulty tag: the fact stored as an interaction
FactMetaAsInteraction(user_id, tags, priority) ==
    [type |-> "interaction", user_id |-> user_id, tags |-> OrEmptyList(tags),
     priority |-> priority]
\* lines 108-113: the long-term record's metadata
FactMeta(user_id, tags, priority) ==
    [type |-> "fact", user_id |-> user_id, tags |-> OrEmptyList(tags), priority |-> priority]

\* add_fact, lines 107-114: call long_term_memory.add_memory
AddFactCall(t, fact_text, user_id, tags, priority) ==
    /\ CanCall(t)
    /\ now + ClockPending < MaxClock
    /\ Len(index) + IndexPending < MaxIndex
    /\ call' = [call EXCEPT ![t] =
                  [op |-> "add_fact", fact_text |-> fact_text,
                   \* what the call found, for the claims
                   before |-> [redis |-> redis, ttl |-> ttl, index |-> index,
                               id_to_memory |-> id_to_memory, next_id |-> next_id],
                   ltm |-> "pending"]]
    /\ EnterAddMemory(t, fact_text, PyDict(FactMeta(user_id, tags, priority)))
    /\ UNCHANGED <<serial, config, sumVars, now, wmVars, ltmVars, fsVars, histVars>>

\* lines 114-119: add_memory has returned (return memory_id) or raised (log, raise)
AfFinish(t) ==
    /\ pc[t] = "af_after_ltm"
    /\ call' = [call EXCEPT ![t].ltm = IF ret[t] = Raised THEN "failed" ELSE "ok"]
    /\ pc' = [pc EXCEPT ![t] = "done"]
    /\ UNCHANGED <<serial, config, sumVars, now, wmVars, ltmVars, fsVars, loc, ret, histVars>>

\* clear_session, lines 198-201: working_memory.clear_memory(session_id), its result
\* dropped; return True
ClearSession(t, session_id) ==
    /\ CanCall(t)
    /\ call' = [call EXCEPT ![t] =
                  [op |-> "clear_session", session_id |-> session_id,
                   \* what the call found, for the claims
                   before |-> [redis |-> redis, ttl |-> ttl, index |-> index,
                               id_to_memory |-> id_to_memory, next_id |-> next_id],
                   wm |-> "ok"]]
    /\ redis' = [redis EXCEPT ![ClearMemoryKey(session_id)] = <<>>]
    /\ ttl' = [ttl EXCEPT ![ClearMemoryKey(session_id)] = <<>>]
    /\ ret' = [ret EXCEPT ![t] = Returned(TRUE)]
    /\ pc' = [pc EXCEPT ![t] = "done"]
    /\ cleared' = [cleared EXCEPT ![session_id] = [ever |-> TRUE, since |-> TRUE]]
    /\ UNCHANGED <<serial, config, sumVars, now, window_size, ltmVars, fsVars, loc, added,
                   committed, readable, saved, outcomes, idle>>

\* client.delete raises inside clear_memory (working_memory.py lines 149-151), which
\* returns False; clear_session drops that result and returns True
ClearSessionStoreFail(t, session_id) ==
    /\ CanCall(t)
    /\ call' = [call EXCEPT ![t] =
                  [op |-> "clear_session", session_id |-> session_id,
                   before |-> [redis |-> redis, ttl |-> ttl, index |-> index,
                               id_to_memory |-> id_to_memory, next_id |-> next_id],
                   wm |-> "failed"]]
    /\ ret' = [ret EXCEPT ![t] = Returned(TRUE)]
    /\ pc' = [pc EXCEPT ![t] = "done"]
    /\ UNCHANGED <<serial, config, sumVars, now, wmVars, ltmVars, fsVars, loc, histVars>>

\* ========================================================= Summarizer
Whitespace == {" ", "\n"}
\* str.rstrip(), str.strip()
RECURSIVE RStrip(_)
RStrip(text) ==
    IF text # <<>> /\ text[Len(text)] \in Whitespace
    THEN RStrip(SubSeq(text, 1, Len(text) - 1))
    ELSE text
RECURSIVE LStrip(_)
LStrip(text) ==
    IF text # <<>> /\ text[1] \in Whitespace THEN LStrip(Tail(text)) ELSE text
Strip(text) == LStrip(RStrip(text))

\* text[:n]
Slice(text, n) ==
    IF n >= 0 THEN SubSeq(text, 1, Min(n, Len(text))) ELSE SubSeq(text, 1, Len(text) + n)

Ellipsis == <<".", ".", ".">>

\* a faulty choice: texts[0]
FirstText(texts) == texts[1]
\* max(texts, key=len): the first of the longest texts
Longest(texts) ==
    texts[CHOOSE i \in 1..Len(texts) :
              /\ \A j \in 1..Len(texts) : Len(texts[j]) <= Len(texts[i])
              /\ \A j \in 1..(i - 1) : Len(texts[j]) < Len(texts[i])]

\* RuleBasedSummarizer.summarize, lines 46-60
RuleBasedSummarize(texts, max_length) ==
    IF texts = <<>> THEN <<>>
    ELSE LET longest == Longest(texts)
             summary == RStrip(Slice(longest, max_length))
         IN IF Len(longest) <= max_length THEN longest
            ELSE IF Len(summary) < Len(longest) THEN summary \o Ellipsis
            ELSE summary

\* line 166: the shortest joined input the local model is given
MinViableLength == 50

Repeat(c, n) == [i \in 1..n |-> c]
\* the texts callers pass: empty, short, with a space, and long enough for the model
TextPool ==
    {<<>>, <<"a">>, <<"a", " ", "b">>, Repeat("a", 24), Repeat("b", 25), Repeat("a", 50)}
TextLists == {<<>>} \cup {<<x>> : x \in TextPool} \cup {<<x, y>> : x, y \in TextPool}
MaxLengths == {0, 2, 3, 40, 200}
\* what a backend answers
Responses == {<<"s">>, <<" ", "s", "\n">>}

\* MemorySummarizer.change_strategy with a newly constructed strategy: RuleBasedSummarizer(),
\* LLMSummarizer() or MiniLMSummarizer(); a failed import leaves the backend None
ChangeStrategy(t, kind, backend) ==
    /\ CanCall(t)
    /\ strategy' = IF kind = "RuleBased" THEN [kind |-> kind]
                   ELSE [kind |-> kind, backend |-> backend]
    /\ strategy' # strategy
    /\ call' = [call EXCEPT ![t] = [op |-> "change_strategy"]]
    /\ ret' = [ret EXCEPT ![t] = Returned(PyNone)]
    /\ pc' = [pc EXCEPT ![t] = "done"]
    /\ UNCHANGED <<serial, config, summary_history, now, wmVars, ltmVars, fsVars, loc, histVars>>

\* MiniLMSummarizer(), lines 137-147: pipeline(...) raises something other than
\* ImportError (the model cannot be loaded), which the constructor does not catch
NewMiniLMRaises(t) ==
    /\ CanCall(t)
    /\ call' = [call EXCEPT ![t] = [op |-> "new_strategy"]]
    /\ ret' = [ret EXCEPT ![t] = Raised]
    /\ pc' = [pc EXCEPT ![t] = "done"]
    /\ UNCHANGED <<serial, config, sumVars, now, wmVars, ltmVars, fsVars, loc, histVars>>

\* self.strategy.summarize(texts, max_length) is entered
SummarizeCall(t, texts, max_length) ==
    /\ CanCall(t)
    /\ call' = [call EXCEPT ![t] =
                  [op |-> "summarize", texts |-> texts, max_length |-> max_length,
                   \* what happened to the backend call, for the claims
                   backend |-> "not called"]]
    /\ ret' = [ret EXCEPT ![t] = NoRet]
    /\ pc' = [pc EXCEPT ![t] = "sum_enter"]
    /\ UNCHANGED <<serial, config, sumVars, now, wmVars, ltmVars, fsVars, loc, histVars>>

\* where a finished strategy.summarize goes: back to the caller
AfterSummarize(t) == IF call[t].op = "summarize_memories" THEN "sm_after" ELSE "done"

\* RuleBasedSummarizer.summarize
SumRuleBased(t) ==
    /\ pc[t] = "sum_enter"
    /\ strategy.kind = "RuleBased"
    /\ ret' = [ret EXCEPT ![t] =
                 Returned(RuleBasedSummarize(call[t].texts, call[t].max_length))]
    /\ pc' = [pc EXCEPT ![t] = AfterSummarize(t)]
    /\ UNCHANGED <<serial, config, sumVars, now, wmVars, ltmVars, fsVars, call, loc, histVars>>

\* lines 100, 160, 166: the backend is called for a non-empty list when there is a
\* backend and, by MiniLMSummarizer, when the joined text has MinViableLength characters
UsesBackend(texts) ==
    /\ texts # <<>>
    /\ strategy.backend = "ready"
    /\ strategy.kind = "MiniLM" => Len(Join(texts)) >= MinViableLength

\* lines 100-102, 160-167: return RuleBasedSummarizer().summarize(texts, max_length)
SumFallback(t) ==
    /\ pc[t] = "sum_enter"
    /\ strategy.kind # "RuleBased"
    /\ ~UsesBackend(call[t].texts)
    /\ ret' = [ret EXCEPT ![t] =
                 Returned(RuleBasedSummarize(call[t].texts, call[t].max_length))]
    /\ pc' = [pc EXCEPT ![t] = AfterSummarize(t)]
    /\ UNCHANGED <<serial, config, sumVars, now, wmVars, ltmVars, fsVars, call, loc, histVars>>

\* lines 104-121, 163-175: join the texts and call the backend
SumBackendCall(t) ==
    /\ pc[t] = "sum_enter"
    /\ strategy.kind # "RuleBased"
    /\ UsesBackend(call[t].texts)
    /\ call' = [call EXCEPT ![t].backend = "called"]
    /\ pc' = [pc EXCEPT ![t] = "sum_backend"]
    /\ UNCHANGED <<serial, config, sumVars, now, wmVars, ltmVars, fsVars, loc, ret, histVars>>

\* lines 123-125, 176-178: the backend answered; return its text, stripped
SumBackendOk(t, response) ==
    /\ pc[t] = "sum_backend"
    /\ call' = [call EXCEPT ![t].backend = "answered"]
    /\ ret' = [ret EXCEPT ![t] = Returned(Strip(response))]
    /\ pc' = [pc EXCEPT ![t] = AfterSummarize(t)]
    /\ UNCHANGED <<serial, config, sumVars, now, wmVars, ltmVars, fsVars, loc, histVars>>

\* a faulty handler: the backend's failure is not caught and reaches the caller
SumBackendRaise(t) ==
    /\ pc[t] = "sum_backend"
    /\ call' = [call EXCEPT ![t].backend = "failed"]
    /\ ret' = [ret EXCEPT ![t] = Raised]
    /\ pc' = [pc EXCEPT ![t] = "done"]
    /\ UNCHANGED <<serial, config, sumVars, now, wmVars, ltmVars, fsVars, loc, histVars>>

\* lines 127-129, 179-181: the backend call raised; return
\* RuleBasedSummarizer().summarize(texts, max_length)
SumBackendFail(t) ==
    /\ pc[t] = "sum_backend"
    /\ call' = [call EXCEPT ![t].backend = "failed"]
    /\ ret' = [ret EXCEPT ![t] =
                 Returned(RuleBasedSummarize(call[t].texts, call[t].max_length))]
    /\ pc' = [pc EXCEPT ![t] = AfterSummarize(t)]
    /\ UNCHANGED <<serial, config, sumVars, now, wmVars, ltmVars, fsVars, loc, histVars>>

\* ------------------------------------------------- MemorySummarizer
\* the records callers pass: with a text and an id, with an empty text, without an id
MemoryPool ==
    {[text |-> <<"a">>, id |-> 0], [text |-> <<>>, id |-> 1], [text |-> <<"a", " ", "b">>]}
MemoryLists == {<<>>} \cup {<<x>> : x \in MemoryPool} \cup {<<x, y>> : x, y \in MemoryPool}
Topics == {"general"}
\* get_summary_history's limit: none, one, two, the default
Limits == {0, 1, 2, 10}

\* line 229: [m.get('text', '') for m in memories if m.get('text')]
RECURSIVE TextsOf(_)
TextsOf(memories) ==
    IF memories = <<>> THEN <<>>
    ELSE (IF "text" \in DOMAIN Head(memories) /\ Head(memories).text # <<>>
          THEN <<Head(memories).text>> ELSE <<>>) \o TextsOf(Tail(memories))
\* line 230: [m.get('id') for m in memories if 'id' in m]
RECURSIVE SourceIdsOf(_)
SourceIdsOf(memories) ==
    IF memories = <<>> THEN <<>>
    ELSE (IF "id" \in DOMAIN Head(memories) THEN <<Head(memories).id>> ELSE <<>>)
             \o SourceIdsOf(Tail(memories))
\* line 241: sum(len(t) for t in texts)
RECURSIVE TotalLength(_)
TotalLength(texts) ==
    IF texts = <<>> THEN 0 ELSE Len(Head(texts)) + TotalLength(Tail(texts))

\* line 256: self.summary_history[-limit:], where -0 is 0
LastSlice(history, limit) ==
    IF limit = 0 THEN history
    ELSE SubSeq(history, Len(history) - Min(limit, Len(history)) + 1, Len(history))

\* summarize_memories, lines 220-227: an empty list returns an empty result at once
SummarizeMemoriesEmpty(t, max_length, topic) ==
    /\ CanCall(t)
    /\ now < MaxClock
    /\ now' = now + 1
    /\ call' = [call EXCEPT ![t] =
                  [op |-> "summarize_memories", memories |-> <<>>,
                   max_length |-> max_length, topic |-> topic]]
    /\ ret' = [ret EXCEPT ![t] =
                 Returned([summary |-> <<>>, source_count |-> 0, source_ids |-> <<>>,
                           created_at |-> now, topic |-> topic])]
    /\ pc' = [pc EXCEPT ![t] = "done"]
    /\ UNCHANGED <<serial, config, sumVars, wmVars, ltmVars, fsVars, loc, histVars>>

\* summarize_memories, lines 229-233: collect the texts and ids, call the strategy
SummarizeMemoriesCall(t, memories, max_length, topic) ==
    /\ CanCall(t)
    /\ memories # <<>>
    /\ now < MaxClock
    /\ call' = [call EXCEPT ![t] =
                  [op |-> "summarize_memories", memories |-> memories,
                   texts |-> TextsOf(memories), max_length |-> max_length,
                   topic |-> topic, backend |-> "not called"]]
    /\ ret' = [ret EXCEPT ![t] = NoRet]
    /\ pc' = [pc EXCEPT ![t] = "sum_enter"]
    /\ UNCHANGED <<serial, config, sumVars, now, wmVars, ltmVars, fsVars, loc, histVars>>

\* lines 235-252: build the result, append it to the history, return it
SmFinish(t) ==
    /\ pc[t] = "sm_after"
    /\ now' = now + 1
    /\ LET result == [summary |-> ret[t].value,
                      source_count |-> Len(call[t].texts),
                      source_ids |-> SourceIdsOf(call[t].memories),
                      created_at |-> now,
                      topic |-> call[t].topic,
                      original_length |-> TotalLength(call[t].texts)]
       IN /\ summary_history' = Append(summary_history, result)
          /\ ret' = [ret EXCEPT ![t] = Returned(result)]
    /\ pc' = [pc EXCEPT ![t] = "done"]
    /\ UNCHANGED <<serial, config, strategy, wmVars, ltmVars, fsVars, call, loc, histVars>>

\* get_summary_history, line 256
GetSummaryHistory(t, limit) ==
    /\ CanCall(t)
    /\ call' = [call EXCEPT ![t] = [op |-> "get_summary_history", limit |-> limit]]
    /\ ret' = [ret EXCEPT ![t] = Returned(LastSlice(summary_history, limit))]
    /\ pc' = [pc EXCEPT ![t] = "done"]
    /\ UNCHANGED <<serial, config, sumVars, now, wmVars, ltmVars, fsVars, loc, histVars>>

\* ============================================================ specifications
\* the configuration where get_agent_context plays no part
DefaultConfig == [context_max_tokens |-> 50, retrieval_top_k |-> 3]

InitCommon ==
    /\ now = 0
    /\ redis = [k \in Keys |-> <<>>]
    /\ ttl = [k \in Keys |-> <<>>]
    /\ index = <<>>
    /\ id_to_memory = EmptyDict
    /\ next_id = 0
    /\ fsIndex = [state |-> "absent"]
    /\ fsMap = [state |-> "absent"]
    /\ pc = [t \in Threads |-> "idle"]
    /\ call = [t \in Threads |-> NoCall]
    /\ loc = [t \in Threads |-> NoLoc]
    /\ ret = [t \in Threads |-> NoRet]
    /\ added = [s \in Sessions |-> <<>>]
    /\ cleared = [s \in Sessions |-> [ever |-> FALSE, since |-> FALSE]]
    /\ committed = [s \in Sessions |-> [list |-> <<>>, overlapped |-> FALSE]]
    /\ readable = [t \in Threads |-> {}]
    /\ saved = [valid |-> FALSE]
    /\ strategy = [kind |-> "RuleBased"]
    /\ summary_history = <<>>
    /\ outcomes = {}
    /\ idle = [s \in Sessions |-> [since |-> 0, ok |-> FALSE]]

\* WorkingMemory(window_size=N) for any N >= 1
InitWM == InitCommon /\ window_size \in 1..MaxWindow /\ serial = TRUE /\ config = DefaultConfig
InitWMConc == InitCommon /\ window_size \in 1..MaxWindow /\ serial = FALSE /\ config = DefaultConfig
\* LongTermMemory alone: the window plays no part
InitLTM == InitCommon /\ window_size = 1 /\ serial = TRUE /\ config = DefaultConfig
InitLTMConc == InitCommon /\ window_size = 1 /\ serial = FALSE /\ config = DefaultConfig

NextWM ==
    \E t \in Threads :
        \/ \E s \in Sessions, r \in Roles, c \in Contents, m \in MetadataArgs :
               AddContextCall(t, s, r, c, m)
        \/ AcLrange(t)
        \/ AcDelete(t)
        \/ AcRpush(t)
        \/ AcExpire(t)
        \/ \E s \in Sessions : GetContextCall(t, s)
        \/ GcLrange(t)
        \/ \E s \in Sessions : ClearMemory(t, s)
        \/ Return(t)

\* WorkingMemory, one call at a time, store available
SpecWM == InitWM /\ [][NextWM]_vars
AddMemorySteps(t) ==
    \/ AmEmbed(t)
    \/ AmIndexAdd(t)
    \/ AmBuild(t)
    \/ AmStore(t)
    \/ AmReadId(t)
    \/ AmIncrLoad(t)
    \/ AmIncrStore(t)

NextLTM ==
    \E t \in Threads :
        \/ \E x \in Texts, m \in MetadataArgs : AddMemoryCall(t, x, m)
        \/ AddMemorySteps(t)
        \/ AmEmbedFail(t)
        \/ \E i \in 0..MaxIndex, x \in TextArgs, m \in MetadataArgs : UpdateMemory(t, i, x, m)
        \/ \E i \in 0..MaxIndex : DeleteMemory(t, i)
        \/ SaveIndexCall(t)
        \/ SiWriteIndex(t)
        \/ SiWriteIndexFail(t)
        \/ SiDumpMap(t)
        \/ SiDumpMapFail(t)
        \/ LoadIndexCall(t)
        \/ LiReadIndex(t)
        \/ LiReadIndexFail(t)
        \/ LiLoadMap(t)
        \/ LiLoadMapFail(t)
        \/ NewInstance(t)
        \/ Return(t)

\* LongTermMemory, one call at a time, with embedder and file faults
SpecLTM == InitLTM /\ [][NextLTM]_vars

NextLTMConc ==
    \E t \in Threads :
        \/ \E x \in Texts : AddMemoryCall(t, x, PyNone)
        \/ AddMemorySteps(t)
        \/ Return(t)

\* LongTermMemory, AddMemory calls of two threads interleaved step by step
SpecLTMConc == InitLTMConc /\ [][NextLTMConc]_vars

InitMgr == InitCommon /\ window_size \in 1..MaxWindow /\ serial = TRUE /\ config = DefaultConfig

NextMgr ==
    \E t \in Threads :
        \/ \E s \in Sessions, p \in Priorities, m \in MetadataArgs :
               AddInteractionCall(t, s, "user", "x", p, m)
        \/ AcLrange(t)
        \/ AcDelete(t)
        \/ AcRpush(t)
        \/ AcExpire(t)
        \/ AcFail(t)
        \/ AiRoute(t)
        \/ AddMemorySteps(t)
        \/ AmEmbedFail(t)
        \/ AiFinish(t)
        \/ Return(t)

\* MemoryManager.add_interaction, one call at a time, with store and embedder faults
SpecMgr == InitMgr /\ [][NextMgr]_vars

\* the session two concurrent callers share
SharedSession == "s1"

NextWMConc ==
    \E t \in Threads :
        \/ \E r \in Roles : AddContextCall(t, SharedSession, r, "x", PyNone)
        \/ AcLrange(t)
        \/ AcDelete(t)
        \/ AcRpush(t)
        \/ AcExpire(t)
        \/ GetContextCall(t, SharedSession)
        \/ GcLrange(t)
        \/ Return(t)

\* WorkingMemory, calls of two threads on one session interleaved step by step
SpecWMConc == InitWMConc /\ [][NextWMConc]_vars

InitTTL == InitCommon /\ window_size \in 1..MaxWindow /\ serial = TRUE /\ config = DefaultConfig

NextTTL ==
    \/ \E t \in Threads :
        \/ \E s \in Sessions : AddContextCall(t, s, "user", "x", PyNone)
        \/ AcLrange(t)
        \/ AcDelete(t)
        \/ AcRpush(t)
        \/ AcExpire(t)
        \/ AcFail(t)
        \/ \E s \in Sessions : GetContextCall(t, s)
        \/ GcLrange(t)
        \/ Return(t)
    \/ Tick

\* WorkingMemory, one call at a time, with store faults and the passing of time
SpecTTL == InitTTL /\ [][NextTTL]_vars

\* MemoryManagerConfig: a budget that cuts everything, one that cuts long contexts,
\* one that cuts nothing
Configs ==
    {[context_max_tokens |-> n, retrieval_top_k |-> k] : n \in {1, 10, 50}, k \in {1, 3}}

InitCtx == InitCommon /\ window_size \in 1..MaxWindow /\ serial = TRUE /\ config \in Configs

NextCtx ==
    \E t \in Threads :
        \/ \E s \in Sessions, r \in Roles, p \in {"MEDIUM", "HIGH"} :
               AddInteractionCall(t, s, r, "x", p, PyNone)
        \/ AcLrange(t)
        \/ AcDelete(t)
        \/ AcRpush(t)
        \/ AcExpire(t)
        \/ AiRoute(t)
        \/ AddMemoryCall(t, "a", PyNone)
        \/ AddMemorySteps(t)
        \/ AiFinish(t)
        \/ \E s \in Sessions, q \in QueryArgs, l \in BOOLEAN : GetAgentContextCall(t, s, q, l)
        \/ GcLrange(t)
        \/ GcFail(t)
        \/ GacRoute(t)
        \/ GacSearch(t)
        \/ GacSearchFail(t)
        \/ GacJoin(t)
        \/ Return(t)

\* MemoryManager.get_agent_context over both stores, one call at a time, with read faults
SpecCtx == InitCtx /\ [][NextCtx]_vars

InitSum == InitCommon /\ window_size = 1 /\ serial = TRUE /\ config = DefaultConfig

NextSum ==
    \E t \in Threads :
        \/ \E k \in {"RuleBased", "LLM", "MiniLM"}, b \in {"none", "ready"} :
               ChangeStrategy(t, k, b)
        \/ NewMiniLMRaises(t)
        \/ \E x \in TextLists, n \in MaxLengths : SummarizeCall(t, x, n)
        \/ SumRuleBased(t)
        \/ SumFallback(t)
        \/ SumBackendCall(t)
        \/ \E r \in Responses : SumBackendOk(t, r)
        \/ SumBackendFail(t)
        \/ Return(t)

\* the summarizer strategies, one call at a time, with backend faults
SpecSum == InitSum /\ [][NextSum]_vars

InitFacade == InitCommon /\ window_size = MaxWindow /\ serial = TRUE /\ config = DefaultConfig

NextFacade ==
    \E t \in Threads :
        \/ \E s \in Sessions, p \in {"MEDIUM", "HIGH"} :
               AddInteractionCall(t, s, "user", "x", p, PyNone)
        \/ AcLrange(t)
        \/ AcDelete(t)
        \/ AcRpush(t)
        \/ AcExpire(t)
        \/ AiRoute(t)
        \/ AddMemorySteps(t)
        \/ AmEmbedFail(t)
        \/ AiFinish(t)
        \/ \E u \in UserIdArgs, g \in TagsArgs : AddFactCall(t, "a", u, g, "HIGH")
        \/ AfFinish(t)
        \/ \E s \in Sessions : ClearSession(t, s)
        \/ \E s \in Sessions : ClearSessionStoreFail(t, s)
        \/ Return(t)

\* MemoryManager.add_interaction, add_fact and clear_session, one call at a time, with
\* store and embedder faults on the fact and session calls
SpecFacade == InitFacade /\ [][NextFacade]_vars

\* the texts stored and searched: "c" next to "a", "b" away from both, "q" between
NearTexts == {"a", "b", "c"}
NearQueries == {"a", "c", "q"}

InitSearch == InitCommon /\ window_size = 1 /\ serial = TRUE /\ config = DefaultConfig

NextSearch ==
    \E t \in Threads :
        \/ \E x \in NearTexts : AddMemoryCall(t, x, PyNone)
        \/ AddMemorySteps(t)
        \/ \E q \in NearQueries, k \in {1, 3} : SearchSimilarCall(t, q, k)
        \/ \E q \in NearQueries, k \in {1, 3} : SearchSimilarFail(t, q, k)
        \/ \E i \in 0..MaxIndex : DeleteMemory(t, i)
        \/ Return(t)

\* LongTermMemory add, delete and search, one call at a time, with embedder faults on
\* the search
SpecSearch == InitSearch /\ [][NextSearch]_vars

InitAddFault == InitCommon /\ window_size = 1 /\ serial = TRUE /\ config = DefaultConfig

NextAddFault ==
    \E t \in Threads :
        \/ \E x \in Texts, m \in MetadataArgs : AddMemoryCall(t, x, m)
        \/ AddMemorySteps(t)
        \/ AmEmbedFail(t)
        \/ AmIndexAddFail(t)
        \/ AmBuildFail(t)
        \/ AmStoreFail(t)
        \/ Return(t)

\* LongTermMemory.add_memory, one call at a time, failing at any of its lines
SpecAddFault == InitAddFault /\ [][NextAddFault]_vars

InitPersist == InitCommon /\ window_size = 1 /\ serial = TRUE /\ config = DefaultConfig

NextPersist ==
    \E t \in Threads :
        \/ \E x \in Texts : AddMemoryCall(t, x, PyNone)
        \/ AddMemorySteps(t)
        \/ \E i \in 0..MaxIndex, x \in TextArgs : UpdateMemory(t, i, x, PyNone)
        \/ \E i \in 0..MaxIndex : DeleteMemory(t, i)
        \/ SaveIndexCall(t)
        \/ SiWriteIndex(t)
        \/ SiDumpMap(t)
        \/ LoadIndexCall(t)
        \/ LiReadIndex(t)
        \/ LiReadIndexFail(t)
        \/ LiLoadMap(t)
        \/ NewInstance(t)
        \/ Return(t)

\* LongTermMemory, one call at a time, no call failing but a load_index that finds
\* no files
SpecPersist == InitPersist /\ [][NextPersist]_vars

\* the thread that writes and the thread that reads, when they are told apart
Writer == "t1"
Reader == "t2"

InitReader == InitCommon /\ window_size = 1 /\ serial = FALSE /\ config = DefaultConfig

NextReader ==
    \/ \E x \in Texts : AddMemoryCall(Writer, x, PyNone)
    \/ AddMemorySteps(Writer)
    \/ GetStatsCall(Reader)
    \/ GsIndexSize(Reader)
    \/ \E q \in Queries : SearchSimilarCall(Reader, q, MaxIndex)
    \/ \E t \in Threads : Return(t)

\* LongTermMemory, one thread adding and another reading between its steps
SpecReader == InitReader /\ [][NextReader]_vars

InitSaveConc == InitCommon /\ window_size = 1 /\ serial = FALSE /\ config = DefaultConfig

NextSaveConc ==
    \/ \E x \in Texts : AddMemoryCall(Writer, x, PyNone)
    \/ AddMemorySteps(Writer)
    \/ SaveIndexCall(Reader)
    \/ SiWriteIndex(Reader)
    \/ SiDumpMap(Reader)
    \/ \E t \in Threads : Return(t)

\* LongTermMemory, one thread adding while another saves, no write failing
SpecSaveConc == InitSaveConc /\ [][NextSaveConc]_vars

\* update_memory's text: absent, empty, or a text other than the stored ones
UpdateTextArgs == {PyNone, PyStr(""), PyStr("c")}
\* update_memory's metadata: absent, empty, a new key, a new value for a stored key
UpdateMetadataArgs ==
    {PyNone, PyDict(EmptyDict), PyDict([k \in {"j"} |-> "u"]), PyDict([k \in {"k"} |-> "w"])}

InitUpdate == InitCommon /\ window_size = 1 /\ serial = TRUE /\ config = DefaultConfig

NextUpdate ==
    \E t \in Threads :
        \/ \E m \in MetadataArgs : AddMemoryCall(t, "a", m)
        \/ AddMemorySteps(t)
        \/ \E i \in 0..MaxIndex, x \in UpdateTextArgs, m \in UpdateMetadataArgs :
               UpdateMemory(t, i, x, m)
        \/ \E i \in 0..MaxIndex : DeleteMemory(t, i)
        \/ Return(t)

\* LongTermMemory add, update and delete, one call at a time
SpecUpdate == InitUpdate /\ [][NextUpdate]_vars

\* add_interaction's metadata: absent, a key of the caller's own, and dicts that
\* hold the keys add_interaction sets itself
TaggedMetadataArgs ==
    {PyNone,
     PyDict([k \in {"k"} |-> "v"]),
     PyDict([k \in {"type"} |-> "fact"]),
     PyDict([k \in {"session_id", "role", "priority"} |->
                CASE k = "session_id" -> "s0" [] k = "role" -> "system" [] k = "priority" -> "LOW"])}

InitMeta == InitCommon /\ window_size = 1 /\ serial = TRUE /\ config = DefaultConfig

NextMeta ==
    \E t \in Threads :
        \/ \E s \in Sessions, r \in Roles, p \in {"HIGH", "CRITICAL"}, m \in TaggedMetadataArgs :
               AddInteractionCall(t, s, r, "x", p, m)
        \/ AcLrange(t)
        \/ AcDelete(t)
        \/ AcRpush(t)
        \/ AcExpire(t)
        \/ AiRoute(t)
        \/ AddMemorySteps(t)
        \/ AiFinish(t)
        \/ Return(t)

\* MemoryManager.add_interaction at HIGH and CRITICAL priority, one call at a time,
\* no call failing
SpecMeta == InitMeta /\ [][NextMeta]_vars

InitHistory == InitCommon /\ window_size = 1 /\ serial = TRUE /\ config = DefaultConfig

NextHistory ==
    \E t \in Threads :
        \/ \E n \in {2, 200}, c \in Topics : SummarizeMemoriesEmpty(t, n, c)
        \/ \E x \in MemoryLists, n \in {2, 200}, c \in Topics : SummarizeMemoriesCall(t, x, n, c)
        \/ SumRuleBased(t)
        \/ SmFinish(t)
        \/ \E k \in Limits : GetSummaryHistory(t, k)
        \/ Return(t)

\* MemorySummarizer with its default strategy, one call at a time
SpecHistory == InitHistory /\ [][NextHistory]_vars

\* the session each caller works on
OwnSession(t) == IF t = Writer THEN "s1" ELSE "s2"

InitFrame == InitCommon /\ window_size = MaxWindow /\ serial = FALSE /\ config = DefaultConfig

NextFrame ==
    \/ \E t \in Threads :
           \/ AddContextCall(t, OwnSession(t), "user", "x", PyNone)
           \/ AcLrange(t)
           \/ AcDelete(t)
           \/ AcRpush(t)
           \/ AcExpire(t)
           \/ AcFail(t)
           \/ ClearMemory(t, OwnSession(t))
           \/ Return(t)
    \/ Tick

\* WorkingMemory, two threads each writing and clearing a session of its own step
\* by step, with store faults, while time passes
SpecFrame == InitFrame /\ [][NextFrame]_vars

\* ==================================================================== claims
Range(seq) == {seq[i] : i \in 1..Len(seq)}
\* the n most recent elements of a history, oldest first
LastTurns(history, n) ==
    [i \in 1..Min(n, Len(history)) |-> history[Len(history) - Min(n, Len(history)) + i]]

GotContext(t, session_id) ==
    pc[t] = "done" /\ call[t].op = "get_context" /\ call[t].session_id = session_id

\* C1: a GetContext on a session that only AddContext calls have written returns at
\* most window_size turns, and they are the window_size most recently added turns
\* (all of them if fewer were added), oldest first.
C1_WindowBound ==
    \A t \in Threads, s \in Sessions :
        (GotContext(t, s) /\ ~cleared[s].ever) =>
            /\ Len(ret[t].value) <= window_size
            /\ ret[t].value = LastTurns(added[s], window_size)

\* C1 witness: a GetContext after more turns were added than the window holds
C1_Witness ==
    \E t \in Threads, s \in Sessions :
        /\ GotContext(t, s) /\ ~cleared[s].ever
        /\ Len(added[s]) > window_size
        /\ Len(ret[t].value) = window_size

\* C2: once the AddContext calls on a session have returned success and the window
\* has room for every turn added, the session's list holds each of those turns.
C2_NoLostTurn ==
    \A s \in Sessions :
        ((\A t \in Threads : ~WritingTo(t, s)) /\ Len(added[s]) <= window_size) =>
            Range(added[s]) \subseteq Range(GetContextResult(s))

\* C3: a GetContext on a session whose last write was a successful ClearMemory
\* (no AddContext since) returns the empty sequence.
C3_ClearEmpties ==
    \A t \in Threads, s \in Sessions :
        (GotContext(t, s) /\ cleared[s].since) => ret[t].value = <<>>

\* C4: a GetContext that runs while one AddContext writes the same session returns
\* the list as it was before that write or as it is after it.
C4_ReadSeesWholeList ==
    \A t \in Threads, s \in Sessions :
        (GotContext(t, s) /\ ~committed[s].overlapped) => ret[t].value \in readable[t]

\* C11: a GetContext on a session that add_context has not written for longer than
\* the TTL (24 hours) returns the empty sequence, and a GetContext less than the TTL
\* after a successful AddContext returns a window that ends with that call's turn.
C11_TTLExpiry ==
    \A t \in Threads, s \in Sessions :
        GotContext(t, s) =>
            /\ call[t].idle.since > TTLSeconds => ret[t].value = <<>>
            /\ (call[t].idle.ok /\ call[t].idle.since < TTLSeconds) =>
                   /\ ret[t].value # <<>>
                   /\ ret[t].value[Len(ret[t].value)] = added[s][Len(added[s])]

AddedMemory(t) ==
    pc[t] = "done" /\ call[t].op = "add_memory" /\ ret[t].kind = "value"

\* C5: two AddMemory calls that have returned hold different ids, and the record
\* table holds under each returned id the record that call stored.
C5_DistinctIds ==
    \A t \in Threads, u \in Threads :
        (t # u /\ AddedMemory(t) /\ AddedMemory(u)) =>
            /\ ret[t].value # ret[u].value
            /\ ret[t].value \in DOMAIN id_to_memory
            /\ id_to_memory[ret[t].value] = call[t].record

\* C6: between calls, GetStats().index_size equals GetStats().total_memories.
C6_StatsAgree ==
    AllQuiet => GetStats.index_size = GetStats.total_memories

LoadedSaved(t) ==
    /\ pc[t] = "done" /\ call[t].op = "load_index"
    /\ call[t].fresh /\ call[t].from_save
    /\ ret[t] = Returned(TRUE)

\* C10: after a LoadIndex into a fresh instance of the artifacts a successful
\* SaveIndex wrote, the record table is the saved one (same ids, same records),
\* total_memories is the saved count, and every query returns the same results.
C10_RoundTrip ==
    \A t \in Threads :
        LoadedSaved(t) =>
            /\ id_to_memory = saved.id_to_memory
            /\ GetStats.total_memories = Cardinality(DOMAIN saved.id_to_memory)
            /\ \A q \in Queries, k \in 1..(MaxIndex + 1) :
                   SearchSimilar(index, id_to_memory, q, k)
                       = SearchSimilar(saved.index, saved.id_to_memory, q, k)

\* C10 witness: such a load of two records, both returned by a search
C10_Witness ==
    \E t \in Threads :
        /\ LoadedSaved(t)
        /\ Cardinality(DOMAIN id_to_memory) = 2
        /\ Len(SearchSimilar(index, id_to_memory, "q", 2)) = 2

Interacted(t) == pc[t] = "done" /\ call[t].op = "add_interaction"

\* C7: an AddInteraction whose writes met no fault has appended exactly one turn,
\* the call's, to the session's window (the oldest turn leaving a full window), and
\* has added exactly one long-term record when priority is HIGH or CRITICAL and
\* none when it is LOW or MEDIUM.
C7_PriorityRouting ==
    \A t \in Threads :
        (Interacted(t) /\ call[t].wm = "ok" /\ call[t].ltm # "failed") =>
            LET got == GetContextResult(call[t].session_id)
                high == call[t].priority \in {"HIGH", "CRITICAL"}
            IN /\ Len(added[call[t].session_id]) = call[t].before.added + 1
               /\ got # <<>>
               /\ got[Len(got)].role = call[t].role
               /\ got[Len(got)].content = call[t].content
               /\ got = LastTurns(Append(call[t].before.context, got[Len(got)]), window_size)
               /\ GetStats.total_memories
                     = call[t].before.total_memories + (IF high THEN 1 ELSE 0)

\* C7 witness: a HIGH interaction stored in both tiers after a MEDIUM one stored in one
C7_Witness ==
    \E t \in Threads :
        /\ Interacted(t) /\ call[t].wm = "ok" /\ call[t].ltm = "ok"
        /\ call[t].priority = "HIGH"
        /\ call[t].before.context # <<>>
        /\ GetStats.total_memories = 1

\* C8: an AddInteraction whose working-memory append failed, or whose required
\* long-term write failed, does not return success.
C8_FailureReported ==
    \A t \in Threads :
        (Interacted(t) /\ (call[t].wm = "failed" \/ call[t].ltm = "failed")) =>
            ret[t] # Returned(TRUE)

\* C9: two AddInteraction calls that failed in different ways (working memory only,
\* long-term only, both) returned different results.
C9_PartialFailureDistinct ==
    \A a \in outcomes, b \in outcomes :
        ( /\ <<a.wm, a.ltm>> # <<b.wm, b.ltm>>
          /\ <<a.wm, a.ltm>> # <<"ok", "ok">>
          /\ <<b.wm, b.ltm>> # <<"ok", "ok">> ) => a.result # b.result

GotAgentContext(t) == pc[t] = "done" /\ call[t].op = "get_agent_context"
\* the text get_agent_context assembled from what it read, before any cut
Assembled(t) == FullContext(call[t].working_context, call[t].similar_memories)
Budget == config.context_max_tokens * 4
IsSuffix(p, text) ==
    Len(p) <= Len(text) /\ SubSeq(text, Len(text) - Len(p) + 1, Len(text)) = p

\* C12: when the text GetAgentContext assembled is longer than the budget
\* (context_max_tokens * 4 characters) the result is the first budget characters of
\* it followed by the truncation marker, of length budget + marker length; when the
\* assembled text is within the budget the result is that text, unchanged.
C12_Truncation ==
    \A t \in Threads :
        GotAgentContext(t) =>
            LET out == ret[t].value
            IN IF Len(Assembled(t)) > Budget
               THEN /\ Len(out) = Budget + Len(TruncationMarker)
                    /\ SubSeq(out, 1, Budget) = SubSeq(Assembled(t), 1, Budget)
                    /\ IsSuffix(TruncationMarker, out)
               ELSE out = Assembled(t)

\* C12 witness: a context of both blocks cut in the middle, under a budget of 40
C12_Witness ==
    \E t \in Threads :
        /\ GotAgentContext(t)
        /\ call[t].working_context # <<>> /\ call[t].similar_memories # <<>>
        /\ Budget = 40 /\ Len(Assembled(t)) > Budget
        /\ Len(ret[t].value) = 40 + Len(TruncationMarker)

\* the two blocks as text: the conversation block, then the knowledge block, one
\* blank line between them when both are there, nothing around a single block
ConversationText(window) ==
    Join(<<RecentHeader>> \o [i \in 1..Len(window) |-> TurnLine(window[i])])
KnowledgeText(results) ==
    Join(<<Tail(KnowledgeHeader)>> \o [i \in 1..Len(results) |-> KnowledgeLine(results[i])])
BlocksText(window, results) ==
    CASE window # <<>> /\ results # <<>> ->
             ConversationText(window) \o <<"\n", "\n">> \o KnowledgeText(results)
      [] window # <<>> /\ results = <<>> -> ConversationText(window)
      [] window = <<>> /\ results # <<>> -> KnowledgeText(results)
      [] OTHER -> <<>>

\* what the search of a call returns when it is made and succeeds
SearchOf(t) ==
    IF call[t].include_long_term /\ Truthy(call[t].query)
    THEN SearchSimilar(index, id_to_memory, call[t].query.s, config.retrieval_top_k)
    ELSE <<>>

\* C13: a GetAgentContext whose reads met no fault and whose text fits the budget
\* returns the conversation block iff the session's window is not empty and the
\* knowledge block iff include_long_term, a non-empty query and a non-empty search
\* result; the conversation block first, exactly one blank line between the two, and
\* a single block alone with no separator line before or after it.
C13_Blocks ==
    \A t \in Threads :
        ( /\ GotAgentContext(t)
          /\ call[t].wm = "ok" /\ call[t].ltm # "failed"
          /\ Len(Assembled(t)) <= Budget ) =>
            ret[t].value = BlocksText(GetContextResult(call[t].session_id), SearchOf(t))

\* C20: a GetAgentContext returns a text and never raises, with or without read
\* faults; the blocks of a failed read are left out (the empty text when nothing
\* could be read), and the Redis lists with their expiries, the record table, the
\* index and next_id are as they were when the call began.
C20_NeverRaisesNorWrites ==
    \A t \in Threads :
        GotAgentContext(t) =>
            /\ ret[t].kind = "value"
            /\ ret[t].value =
                   Truncate(FullContext(IF call[t].wm = "failed" THEN <<>>
                                        ELSE GetContextResult(call[t].session_id),
                                        IF call[t].ltm = "failed" THEN <<>> ELSE SearchOf(t)),
                            Budget)
            /\ (call[t].wm = "failed" /\ call[t].ltm \in {"failed", "skipped"}) =>
                   ret[t].value = <<>>
            /\ redis = call[t].before.redis
            /\ ttl = call[t].before.ttl
            /\ index = call[t].before.index
            /\ id_to_memory = call[t].before.id_to_memory
            /\ next_id = call[t].before.next_id

\* C20 witness: both reads failed on a session with turns and an index with vectors
C20_Witness ==
    \E t \in Threads :
        /\ GotAgentContext(t)
        /\ call[t].wm = "failed" /\ call[t].ltm = "failed"
        /\ GetContextResult(call[t].session_id) # <<>>
        /\ Len(index) > 0
        /\ ret[t] = Returned(<<>>)

Summarized(t) == pc[t] = "done" /\ call[t].op = "summarize"
IsPrefix(p, text) == Len(p) <= Len(text) /\ SubSeq(text, 1, Len(p)) = p

C15_Fallback ==
    \A t \in Threads :
        ( /\ Summarized(t) /\ strategy.kind \in {"LLM", "MiniLM"}
          /\ \/ strategy.backend = "none"
             \/ call[t].backend = "failed"
             \/ strategy.kind = "MiniLM" /\ Len(Join(call[t].texts)) < 50 ) =>
            ret[t] = Returned(RuleBasedSummarize(call[t].texts, call[t].max_length))

\* C15 witness: a failed backend call on a long input, answered with the cut text
C15_Witness ==
    \E t \in Threads :
        /\ Summarized(t) /\ strategy.kind = "MiniLM" /\ call[t].backend = "failed"
        /\ Len(Join(call[t].texts)) >= 50
        /\ call[t].max_length = 40
        /\ Len(ret[t].value) = 43

AddedFact(t) == pc[t] = "done" /\ call[t].op = "add_fact"

\* C16: an AddFact whose long-term write succeeded returns an id that was not in the
\* record table, the table has gained exactly the record under that id, with the
\* fact's text and metadata type "fact", and the index one vector; an AddFact whose
\* write failed raises; either way every Redis list and expiry is as it was.
C16_AddFact ==
    \A t \in Threads :
        AddedFact(t) =>
            /\ redis = call[t].before.redis
            /\ ttl = call[t].before.ttl
            /\ IF call[t].ltm = "failed"
               THEN /\ ret[t] = Raised
                    /\ id_to_memory = call[t].before.id_to_memory
               ELSE /\ ret[t].kind = "value"
                    /\ ret[t].value \notin DOMAIN call[t].before.id_to_memory
                    /\ DOMAIN id_to_memory
                          = DOMAIN call[t].before.id_to_memory \cup {ret[t].value}
                    /\ \A i \in DOMAIN call[t].before.id_to_memory :
                           id_to_memory[i] = call[t].before.id_to_memory[i]
                    /\ id_to_memory[ret[t].value].metadata["type"] = "fact"
                    /\ id_to_memory[ret[t].value].text = call[t].fact_text
                    /\ Len(index) = Len(call[t].before.index) + 1

\* C16 witness: a fact added beside an interaction record, a session holding turns
C16_Witness ==
    \E t \in Threads :
        /\ AddedFact(t) /\ call[t].ltm = "ok"
        /\ ret[t] = Returned(1)
        /\ id_to_memory[0].metadata["type"] = "interaction"
        /\ GetContextResult("s1") # <<>>

ClearedSession(t) == pc[t] = "done" /\ call[t].op = "clear_session"

\* C17: a ClearSession leaves the index, the record table (the records of the cleared
\* session among them) and next_id as they were, and every other session's list and
\* expiry as they were.
C17_ClearSessionFrame ==
    \A t \in Threads :
        ClearedSession(t) =>
            /\ index = call[t].before.index
            /\ id_to_memory = call[t].before.id_to_memory
            /\ next_id = call[t].before.next_id
            /\ \A s \in Sessions \ {call[t].session_id} :
                   /\ redis[AddContextKey(s)] = call[t].before.redis[AddContextKey(s)]
                   /\ ttl[AddContextKey(s)] = call[t].before.ttl[AddContextKey(s)]

\* C17 witness: a session cleared that has a long-term record, another session
\* holding turns
C17_Witness ==
    \E t \in Threads :
        /\ ClearedSession(t) /\ call[t].session_id = "s2" /\ call[t].wm = "ok"
        /\ \E i \in DOMAIN id_to_memory :
               /\ "session_id" \in DOMAIN id_to_memory[i].metadata
               /\ id_to_memory[i].metadata["session_id"] = "s2"
        /\ GetContextResult("s1") # <<>>

Ids(results) == [i \in 1..Len(results) |-> results[i].id]
DeletesMemory(t) == pc[t] = "idle" /\ pc'[t] = "done" /\ call'[t].op = "delete_memory"

\* C18: a DeleteMemory of an existing id returns success and stamps deleted_at on that
\* record and changes nothing else: the record is still returned by GetMemory with its
\* other fields, the record ids, total_memories, the index and next_id are as before,
\* and every search returns the ids it returned before; a DeleteMemory of an unknown
\* id returns failure and changes nothing.
C18_LogicalDelete ==
    [][\A t \in Threads :
          DeletesMemory(t) =>
              LET id == call'[t].memory_id
              IN IF id \in DOMAIN id_to_memory
                 THEN /\ ret'[t] = Returned(TRUE)
                      /\ DOMAIN id_to_memory' = DOMAIN id_to_memory
                      /\ "deleted_at" \in DOMAIN GetMemory(id_to_memory', id)
                      /\ \A f \in DOMAIN id_to_memory[id] \ {"deleted_at"} :
                             GetMemory(id_to_memory', id)[f] = id_to_memory[id][f]
                      /\ \A i \in DOMAIN id_to_memory \ {id} :
                             id_to_memory'[i] = id_to_memory[i]
                      /\ GetStats' = GetStats
                      /\ index' = index /\ next_id' = next_id
                      /\ \A q \in NearQueries, k \in 1..(MaxIndex + 1) :
                             Ids(SearchSimilar(index', id_to_memory', q, k))
                                 = Ids(SearchSimilar(index, id_to_memory, q, k))
                 ELSE /\ ret'[t] = Returned(FALSE)
                      /\ UNCHANGED <<index, id_to_memory, next_id>>]_vars

\* C18 witness: a deleted record that is the nearest result of a search
C18_Witness ==
    \E t \in Threads :
        /\ pc[t] = "done" /\ call[t].op = "delete_memory" /\ ret[t] = Returned(TRUE)
        /\ "deleted_at" \in DOMAIN id_to_memory[call[t].memory_id]
        /\ Cardinality(DOMAIN id_to_memory) = 2
        /\ Ids(SearchSimilar(index, id_to_memory, "a", 1)) = <<call[t].memory_id>>

Searched(t) == pc[t] = "done" /\ call[t].op = "search_similar"
Zero == F32(0, 0)
\* a/b < c/d for positive denominators
FracLess(x, y) == x.num * y.den < y.num * x.den

\* C19: in the results of a SearchSimilar every similarity lies in (0, 1], is 1
\* exactly when the distance is 0, and of two results the one with the smaller
\* distance has the greater similarity.
C19_Similarity ==
    \A t \in Threads :
        Searched(t) =>
            LET results == ret[t].value
            IN /\ \A i \in 1..Len(results) :
                      /\ ~F32Less(results[i].distance, Zero)
                      /\ 0 < results[i].similarity.num
                      /\ results[i].similarity.num <= results[i].similarity.den
                      /\ (results[i].similarity.num = results[i].similarity.den)
                             <=> (results[i].distance = Zero)
               /\ \A i, j \in 1..Len(results) :
                      F32Less(results[i].distance, results[j].distance) =>
                          FracLess(results[j].similarity, results[i].similarity)

GotStats(t) == pc[t] = "done" /\ call[t].op = "get_stats"
Positions(idx) == 0..(Len(idx) - 1)

\* C21: while one AddMemory is in flight and another thread reads, at every point
\* the index holds a vector at position i exactly when the record table holds a
\* record with id i, and no GetStats returns an index_size different from its
\* total_memories.
C21_NoHalfAdd ==
    /\ Positions(index) = DOMAIN id_to_memory
    /\ \A t \in Threads :
           GotStats(t) => ret[t].value.index_size = ret[t].value.total_memories

FailedAddMemory(t) ==
    pc[t] = "done" /\ call[t].op = "add_memory" /\ "failed_at" \in DOMAIN call[t]
LtmNow == [index |-> index, id_to_memory |-> id_to_memory, next_id |-> next_id]

\* C22: an AddMemory that fails raises to its caller; when the embedding (or the
\* index insert) failed, the index, the record table and next_id are as they were
\* before the call; when the index insert succeeded and building or storing the
\* record failed, next_id is as it was before the call.
C22_NoPartialCommit ==
    \A t \in Threads :
        FailedAddMemory(t) =>
            /\ ret[t] = Raised
            /\ call[t].failed_at \in {"embed", "index"} => LtmNow = call[t].before
            /\ call[t].failed_at \in {"build", "store"} =>
                   /\ Len(index) = Len(call[t].before.index) + 1
                   /\ next_id = call[t].before.next_id

\* C22 witness: after one stored record, an AddMemory whose record store failed
C22_Witness ==
    \E t \in Threads :
        /\ FailedAddMemory(t) /\ call[t].failed_at = "store"
        /\ call[t].before.next_id = 1
        /\ Len(index) = 2 /\ next_id = 1

\* C23: between calls, the index size equals next_id, the record ids are the index
\* positions, the record under id i carries id i and, while its text is the one it
\* was added with, the vector at position i is that text's embedding.
C23_IdIsPosition ==
    AllQuiet =>
        /\ Len(index) = next_id
        /\ DOMAIN id_to_memory = Positions(index)
        /\ \A i \in DOMAIN id_to_memory :
               /\ id_to_memory[i].id = i
               /\ (i \in Positions(index) /\ "updated_at" \notin DOMAIN id_to_memory[i])
                      => index[i + 1] = Embed(id_to_memory[i].text)

LoadedIndex(t) == pc[t] = "done" /\ call[t].op = "load_index"

\* C24: after a LoadIndex that returned success, next_id is the greatest loaded id
\* plus one when the loaded record table has records, and 0 when it has none.
C24_NextIdAfterLoad ==
    \A t \in Threads :
        (LoadedIndex(t) /\ ret[t] = Returned(TRUE)) =>
            next_id = (IF id_to_memory = EmptyDict THEN 0 ELSE MaxKey(id_to_memory) + 1)

SavedIndexOk(t) == pc[t] = "done" /\ call[t].op = "save_index" /\ ret[t] = Returned(TRUE)

\* C25: when a SaveIndex has returned success, also with an AddMemory running beside
\* it, the saved index holds as many vectors as the saved table holds records, and
\* every saved record id is a position of the saved index.
C25_SnapshotConsistent ==
    \A t \in Threads :
        SavedIndexOk(t) =>
            /\ fsIndex.state = "ok" /\ fsMap.state = "ok"
            /\ Len(fsIndex.data) = Cardinality(DOMAIN fsMap.data)
            /\ \A k \in DOMAIN fsMap.data : StrToInt(k) \in Positions(fsIndex.data)

\* what the claim asks of a step that is update_memory(memory_id, text, metadata)
Updated(t, memory_id, text, metadata) ==
    IF memory_id \in DOMAIN id_to_memory
    THEN LET old == id_to_memory[memory_id]
             new == id_to_memory'[memory_id]
         IN /\ ret'[t] = Returned(TRUE)
            /\ DOMAIN id_to_memory' = DOMAIN id_to_memory
            /\ new.text = (IF text.tag = "str" THEN text.s ELSE old.text)
            /\ new.metadata = (IF metadata.tag = "dict"
                               THEN DictUpdate(old.metadata, metadata.items)
                               ELSE old.metadata)
            /\ DOMAIN new = DOMAIN old \cup {"updated_at"}
            /\ \A f \in DOMAIN old \ {"text", "metadata", "updated_at"} : new[f] = old[f]
            /\ \A i \in DOMAIN id_to_memory \ {memory_id} :
                   id_to_memory'[i] = id_to_memory[i]
            /\ index' = index /\ next_id' = next_id
    ELSE /\ ret'[t] = Returned(FALSE)
         /\ UNCHANGED <<index, id_to_memory, next_id>>

\* C26: an UpdateMemory of an existing id returns success, leaves the record with
\* the supplied text as its text and the supplied metadata merged into its metadata,
\* stamps updated_at, and changes no other field, no other record, not the set of
\* ids, the index or next_id; an UpdateMemory of an unknown id returns failure and
\* changes nothing.
C26_UpdateFrame ==
    [][\A t \in Threads, i \in 0..MaxIndex, x \in UpdateTextArgs, m \in UpdateMetadataArgs :
          UpdateMemory(t, i, x, m) => Updated(t, i, x, m)]_vars

\* C27: a ClearSession whose store delete failed does not return success.
C27_ClearFaultSurfaced ==
    \A t \in Threads :
        (ClearedSession(t) /\ call[t].wm = "failed") => ret[t] # Returned(TRUE)

\* the record an add_interaction stored: records get the ids 0, 1, ... in turn
StoredBy(t) == id_to_memory[call[t].before.total_memories]

\* C28: the long-term record an AddInteraction created has metadata with type
\* "interaction" and the call's session_id, role and priority name, whatever
\* metadata the caller passed.
C28_InteractionTags ==
    \A t \in Threads :
        (Interacted(t) /\ call[t].ltm = "ok") =>
            /\ call[t].before.total_memories \in DOMAIN id_to_memory
            /\ StoredBy(t).metadata["type"] = "interaction"
            /\ StoredBy(t).metadata["session_id"] = call[t].session_id
            /\ StoredBy(t).metadata["role"] = call[t].role
            /\ StoredBy(t).metadata["priority"] = call[t].priority

EndsSummarizeMemories(t) ==
    pc[t] # "done" /\ pc'[t] = "done" /\ call'[t].op = "summarize_memories"
GetsSummaryHistory(t) ==
    pc[t] # "done" /\ pc'[t] = "done" /\ call'[t].op = "get_summary_history"

\* C29: every SummarizeMemories call, one with an empty list included, leaves the
\* history one entry longer, the new entry being its result and the earlier entries
\* as they were; no other step changes the history; GetSummaryHistory(limit) returns
\* the last min(limit, length) entries in order, none for limit 0.
C29_History ==
    [][\A t \in Threads :
          /\ EndsSummarizeMemories(t) =>
                 summary_history' = Append(summary_history, ret'[t].value)
          /\ (\A u \in Threads : ~EndsSummarizeMemories(u)) =>
                 summary_history' = summary_history
          /\ GetsSummaryHistory(t) =>
                 LET limit == call'[t].limit
                     n == Min(limit, Len(summary_history))
                 IN /\ ret'[t].value
                          = SubSeq(summary_history, Len(summary_history) - n + 1,
                                   Len(summary_history))
                    /\ limit = 0 => ret'[t].value = <<>>]_vars

\* C30: a LoadIndex that returned failure leaves the index, the record table and
\* next_id as they were before the call; stated for the calls made on a fresh
\* instance, whose index and table were empty and whose next_id was 0.
C30_FailedLoadNoChange ==
    \A t \in Threads :
        (LoadedIndex(t) /\ call[t].fresh /\ ret[t] = Returned(FALSE)) =>
            /\ index = <<>>
            /\ id_to_memory = EmptyDict
            /\ next_id = 0

\* the step is one of thread t's add_context or clear_memory on session_id
WritesSession(t, session_id) ==
    \/ /\ loc[t].op = "add_context" /\ loc[t].session_id = session_id
       /\ (pc'[t] # pc[t] \/ loc'[t] # loc[t])
    \/ /\ pc[t] = "idle" /\ pc'[t] # "idle"
       /\ call'[t].op \in {"add_context", "clear_memory"}
       /\ call'[t].session_id = session_id
SessionKeys(session_id) == {AddContextKey(session_id), ClearMemoryKey(session_id)}

\* C31: a step of an AddContext or a ClearMemory on one session leaves the turn
\* list and the remaining TTL under every other session's keys as they were,
\* whatever the other thread is doing.
C31_OtherKeysUnchanged ==
    [][\A t \in Threads, s \in Sessions :
          WritesSession(t, s) =>
              \A o \in Sessions \ {s} : \A k \in SessionKeys(o) :
                  redis'[k] = redis[k] /\ ttl'[k] = ttl[k]]_vars

\* C31 witness: an AddContext on one session has returned, its key holding a full
\* TTL, while the other session's key holds a turn and a TTL that time has shortened
C31_Witness ==
    \E t \in Threads :
        /\ pc[t] = "done" /\ call[t].op = "add_context" /\ call[t].session_id = "s2"
        /\ ret[t] = Returned(TRUE)
        /\ ttl[AddContextKey("s2")] = <<TTLSeconds>>
        /\ redis[AddContextKey("s1")] # <<>>
        /\ ttl[AddContextKey("s1")] = <<TTLSeconds - TickSeconds>>

====
